---- MODULE Spec2Model ----
(***************************************************************************)
(* Urbix API: parcel resolution, the concurrent site aggregation, the      *)
(* buildability calculator and the constraints scorer, as state machines.  *)
(*                                                                         *)
(* Conventions of the model                                                *)
(*   - Python None is the value None for numbers and NoneStr for strings.  *)
(*   - Lengths (setbacks, heights, the side of the square) are fixed-point *)
(*     in centimetres, areas of the envelope in square centimetres; the    *)
(*     parcel area and lot sizes are whole square metres.  math.sqrt is    *)
(*     the integer square root in centimetres.                             *)
(*   - Text is a TLA+ string; the Python string operations used by the     *)
(*     code (in, lower, strip, split, isdigit, int) are computed           *)
(*     character by character.  Characters outside ASCII are written in    *)
(*     ASCII ("m2" for the square-metre sign, "-" for a dash) and the      *)
(*     pictographs that open some summaries are left out.                  *)
(*   - A remote service is the answer it gives: an error (transport,       *)
(*     timeout) or the features found, each a record of attributes, a null *)
(*     attribute being None or NoneStr.  Geometries of features, links,    *)
(*     colours and the lists of uses of a zone are left out of the         *)
(*     records the providers and the summary return.                       *)
(*   - The overlay provider queries three of its 48 layers, in batches of  *)
(*     batch_size.                                                         *)
(***************************************************************************)
EXTENDS Integers, Sequences, FiniteSets, TLC

VARIABLES
  pc,       \* position of the call or request under check
  args,     \* its arguments
  ret,      \* what it returned
  world,    \* the rows of the local index and the records of the remote services
  db_up,    \* whether the local index answers now
  _use_db,  \* routers/lookup.py: the availability flag, computed once
  calls,    \* the lookups the current request has issued, in order
  tasks,    \* the state of each provider task of the fan-out
  slots,    \* the results asyncio.gather collects for the handler, by position
  batch     \* the results it collects for one batch of overlay layer queries

vars == <<pc, args, ret, world, db_up, _use_db, calls, tasks, slots, batch>>

resolveVars == <<world, db_up, _use_db, calls>>
reportVars == <<tasks, slots, batch>>

None == 0 - 1
NoneStr == "<None>"
NoRet == [none |-> TRUE]

\* the one element of a set of one: used to compute a value once and name it
Only(S) == CHOOSE x \in S : TRUE

\* the value of the variables a specification does not use
NoWorld == [none |-> TRUE]
ResolveIdle == world = NoWorld /\ db_up = FALSE /\ _use_db = NoneStr /\ calls = <<>>
\* no batch of layer queries is running
NoBatch == [none |-> TRUE]
ReportIdle == tasks = <<>> /\ slots = <<>> /\ batch = NoBatch

-----------------------------------------------------------------------------
(* Python string operations *)

UpperChars == "ABCDEFGHIJKLMNOPQRSTUVWXYZ"
LowerChars == "abcdefghijklmnopqrstuvwxyz"
DigitChars == "0123456789"

CharAt(s, i) == SubSeq(s, i, i)

IndexIn(alphabet, c) ==
  IF \E i \in 1..Len(alphabet) : CharAt(alphabet, i) = c
  THEN CHOOSE i \in 1..Len(alphabet) : CharAt(alphabet, i) = c
  ELSE 0

LowerChar(c) ==
  LET i == IndexIn(UpperChars, c) IN IF i = 0 THEN c ELSE CharAt(LowerChars, i)

RECURSIVE Lower(_)
Lower(s) ==
  IF Len(s) = 0 THEN "" ELSE LowerChar(CharAt(s, 1)) \o Lower(SubSeq(s, 2, Len(s)))

\* t in s
Contains(s, t) ==
  \E i \in 1..(Len(s) - Len(t) + 1) : SubSeq(s, i, i + Len(t) - 1) = t

\* s.find(t) + 1, 0 when absent
Find(s, t) ==
  IF Contains(s, t)
  THEN CHOOSE i \in 1..(Len(s) - Len(t) + 1) :
         /\ SubSeq(s, i, i + Len(t) - 1) = t
         /\ \A j \in 1..(i - 1) : SubSeq(s, j, j + Len(t) - 1) # t
  ELSE 0

IsDigit(c) == IndexIn(DigitChars, c) # 0
IsSpace(c) == c = " "

RECURSIVE LStrip(_)
LStrip(s) ==
  IF Len(s) > 0 /\ IsSpace(CharAt(s, 1)) THEN LStrip(SubSeq(s, 2, Len(s))) ELSE s

RECURSIVE RStrip(_)
RStrip(s) ==
  IF Len(s) > 0 /\ IsSpace(CharAt(s, Len(s))) THEN RStrip(SubSeq(s, 1, Len(s) - 1)) ELSE s

Strip(s) == LStrip(RStrip(s))

\* s.split(sep) for a non-empty sep
RECURSIVE Split(_, _)
Split(s, sep) ==
  LET i == Find(s, sep) IN
  IF i = 0 THEN <<s>>
  ELSE <<SubSeq(s, 1, i - 1)>> \o Split(SubSeq(s, i + Len(sep), Len(s)), sep)

\* "".join(filter(str.isdigit, s))
RECURSIVE FilterDigits(_)
FilterDigits(s) ==
  IF Len(s) = 0 THEN ""
  ELSE (IF IsDigit(CharAt(s, 1)) THEN CharAt(s, 1) ELSE "") \o FilterDigits(SubSeq(s, 2, Len(s)))

RECURSIVE DigitsValue(_)
DigitsValue(s) ==
  IF Len(s) = 0 THEN 0
  ELSE 10 * DigitsValue(SubSeq(s, 1, Len(s) - 1)) + (IndexIn(DigitChars, CharAt(s, Len(s))) - 1)

AllDigits(s) == Len(s) > 0 /\ \A i \in 1..Len(s) : IsDigit(CharAt(s, i))

\* int(s): surrounding blanks and one sign are accepted, anything else but
\* decimal digits raises ValueError (ok = FALSE)
ParseInt(s) ==
  LET t == Strip(s)
      signed == Len(t) > 0 /\ CharAt(t, 1) \in {"+", "-"}
      d == IF signed THEN SubSeq(t, 2, Len(t)) ELSE t
  IN IF AllDigits(d)
     THEN [ok |-> TRUE,
           val |-> IF signed /\ CharAt(t, 1) = "-" THEN 0 - DigitsValue(d) ELSE DigitsValue(d)]
     ELSE [ok |-> FALSE, val |-> 0]

-----------------------------------------------------------------------------
(* Numbers *)

Min(a, b) == IF a < b THEN a ELSE b
Max(a, b) == IF a > b THEN a ELSE b

RECURSIVE SqrtSearch(_, _, _)
SqrtSearch(x, lo, hi) ==
  IF lo >= hi THEN lo
  ELSE LET mid == (lo + hi + 1) \div 2 IN
       IF mid * mid <= x THEN SqrtSearch(x, mid, hi) ELSE SqrtSearch(x, lo, mid - 1)

\* floor(sqrt(x)) for 0 <= x < 2^30
Isqrt(x) == SqrtSearch(x, 0, 32767)

CmPerM == 10 * 10
Cm2PerM2 == CmPerM * CmPerM

-----------------------------------------------------------------------------
(* Zone rules: src/app/services/buildability.py *)

ZONE_RULES ==
  <<
   [key |-> "Low Density Residential Zone", zone_category |-> "Residential Zones Category",
    max_height_m |-> 850, max_storeys |-> 2, max_site_cover_pct |-> 50,
    front_setback_m |-> 600, side_setback_m |-> 150, rear_setback_m |-> 600,
    min_lot_size_sqm |-> 400, min_frontage_m |-> 12, max_dwelling_density |-> "1 per lot"],
   [key |-> "Low-medium Density Residential Zone", zone_category |-> "Residential Zones Category",
    max_height_m |-> 1200, max_storeys |-> 3, max_site_cover_pct |-> 50,
    front_setback_m |-> 600, side_setback_m |-> 200, rear_setback_m |-> 600,
    min_lot_size_sqm |-> 300, min_frontage_m |-> 10, max_dwelling_density |-> "1 per 300sqm"],
   [key |-> "Medium Density Residential Zone", zone_category |-> "Residential Zones Category",
    max_height_m |-> 1500, max_storeys |-> 4, max_site_cover_pct |-> 50,
    front_setback_m |-> 600, side_setback_m |-> 300, rear_setback_m |-> 600,
    min_lot_size_sqm |-> 200, min_frontage_m |-> 10, max_dwelling_density |-> "1 per 200sqm"],
   [key |-> "High Density Residential Zone", zone_category |-> "Residential Zones Category",
    max_height_m |-> 2200, max_storeys |-> 6, max_site_cover_pct |-> 60,
    front_setback_m |-> 600, side_setback_m |-> 300, rear_setback_m |-> 600,
    min_lot_size_sqm |-> 150, min_frontage_m |-> 15, max_dwelling_density |-> "1 per 100sqm"],
   [key |-> "Principal Centre Zone", zone_category |-> "Centre Zones Category",
    max_height_m |-> 4500, max_storeys |-> 12, max_site_cover_pct |-> 80,
    front_setback_m |-> 0, side_setback_m |-> 0, rear_setback_m |-> 300,
    min_lot_size_sqm |-> 200, min_frontage_m |-> None, max_dwelling_density |-> "1 per 50sqm"],
   [key |-> "Major Centre Zone", zone_category |-> "Centre Zones Category",
    max_height_m |-> 2500, max_storeys |-> 7, max_site_cover_pct |-> 80,
    front_setback_m |-> 0, side_setback_m |-> 0, rear_setback_m |-> 300,
    min_lot_size_sqm |-> 200, min_frontage_m |-> None, max_dwelling_density |-> "1 per 75sqm"],
   [key |-> "District Centre Zone", zone_category |-> "Centre Zones Category",
    max_height_m |-> 1500, max_storeys |-> 4, max_site_cover_pct |-> 70,
    front_setback_m |-> 0, side_setback_m |-> 0, rear_setback_m |-> 300,
    min_lot_size_sqm |-> 200, min_frontage_m |-> None, max_dwelling_density |-> "1 per 100sqm"],
   [key |-> "Local Centre Zone", zone_category |-> "Centre Zones Category",
    max_height_m |-> 1200, max_storeys |-> 3, max_site_cover_pct |-> 60,
    front_setback_m |-> 0, side_setback_m |-> 0, rear_setback_m |-> 300,
    min_lot_size_sqm |-> 300, min_frontage_m |-> None, max_dwelling_density |-> "1 per 150sqm"],
   [key |-> "Neighbourhood Centre Zone", zone_category |-> "Centre Zones Category",
    max_height_m |-> 850, max_storeys |-> 2, max_site_cover_pct |-> 60,
    front_setback_m |-> 300, side_setback_m |-> 0, rear_setback_m |-> 300,
    min_lot_size_sqm |-> 400, min_frontage_m |-> None, max_dwelling_density |-> "1 per 200sqm"],
   [key |-> "Low Impact Industry Zone", zone_category |-> "Industry Zones Category",
    max_height_m |-> 1200, max_storeys |-> 2, max_site_cover_pct |-> 70,
    front_setback_m |-> 600, side_setback_m |-> 300, rear_setback_m |-> 600,
    min_lot_size_sqm |-> 1000, min_frontage_m |-> 20, max_dwelling_density |-> "Caretaker only"],
   [key |-> "Medium Impact Industry Zone", zone_category |-> "Industry Zones Category",
    max_height_m |-> 1500, max_storeys |-> 3, max_site_cover_pct |-> 70,
    front_setback_m |-> 1000, side_setback_m |-> 500, rear_setback_m |-> 1000,
    min_lot_size_sqm |-> 2000, min_frontage_m |-> 30, max_dwelling_density |-> "Caretaker only"],
   [key |-> "High Impact Industry Zone", zone_category |-> "Industry Zones Category",
    max_height_m |-> 1500, max_storeys |-> 3, max_site_cover_pct |-> 70,
    front_setback_m |-> 2000, side_setback_m |-> 1000, rear_setback_m |-> 2000,
    min_lot_size_sqm |-> 4000, min_frontage_m |-> 50, max_dwelling_density |-> "Caretaker only"],
   [key |-> "Sport and Recreation Zone", zone_category |-> "Specialised Zones Category",
    max_height_m |-> 1200, max_storeys |-> 2, max_site_cover_pct |-> 40,
    front_setback_m |-> 600, side_setback_m |-> 300, rear_setback_m |-> 600,
    min_lot_size_sqm |-> None, min_frontage_m |-> None, max_dwelling_density |-> "Caretaker only"],
   [key |-> "Open Space Zone", zone_category |-> "Specialised Zones Category",
    max_height_m |-> 850, max_storeys |-> 2, max_site_cover_pct |-> 10,
    front_setback_m |-> 600, side_setback_m |-> 300, rear_setback_m |-> 600,
    min_lot_size_sqm |-> None, min_frontage_m |-> None, max_dwelling_density |-> "None"],
   [key |-> "Environmental Management and Conservation Zone", zone_category |-> "Other Zones Category",
    max_height_m |-> 850, max_storeys |-> 2, max_site_cover_pct |-> 10,
    front_setback_m |-> 1000, side_setback_m |-> 500, rear_setback_m |-> 1000,
    min_lot_size_sqm |-> None, min_frontage_m |-> None, max_dwelling_density |-> "Caretaker only"],
   [key |-> "Community Facilities Zone", zone_category |-> "Specialised Zones Category",
    max_height_m |-> 1200, max_storeys |-> 3, max_site_cover_pct |-> 50,
    front_setback_m |-> 600, side_setback_m |-> 300, rear_setback_m |-> 600,
    min_lot_size_sqm |-> None, min_frontage_m |-> None, max_dwelling_density |-> "Caretaker only"],
   [key |-> "Tourist Accommodation Zone", zone_category |-> "Residential Zones Category",
    max_height_m |-> 1500, max_storeys |-> 4, max_site_cover_pct |-> 50,
    front_setback_m |-> 600, side_setback_m |-> 300, rear_setback_m |-> 600,
    min_lot_size_sqm |-> 800, min_frontage_m |-> 20, max_dwelling_density |-> "1 per 200sqm"],
   [key |-> "Rural Zone", zone_category |-> "Other Zones Category",
    max_height_m |-> 850, max_storeys |-> 2, max_site_cover_pct |-> 10,
    front_setback_m |-> 2000, side_setback_m |-> 1000, rear_setback_m |-> 2000,
    min_lot_size_sqm |-> 40000, min_frontage_m |-> 100, max_dwelling_density |-> "1 per lot"],
   [key |-> "Rural Residential Zone", zone_category |-> "Other Zones Category",
    max_height_m |-> 850, max_storeys |-> 2, max_site_cover_pct |-> 15,
    front_setback_m |-> 1000, side_setback_m |-> 500, rear_setback_m |-> 1000,
    min_lot_size_sqm |-> 4000, min_frontage_m |-> 40, max_dwelling_density |-> "1 per lot"],
   [key |-> "Emerging Community Zone", zone_category |-> "Other Zones Category",
    max_height_m |-> 850, max_storeys |-> 2, max_site_cover_pct |-> 50,
    front_setback_m |-> 600, side_setback_m |-> 150, rear_setback_m |-> 600,
    min_lot_size_sqm |-> 600, min_frontage_m |-> 15, max_dwelling_density |-> "1 per lot"],
   [key |-> "Mixed Use Zone", zone_category |-> "Centre Zones Category",
    max_height_m |-> 1500, max_storeys |-> 4, max_site_cover_pct |-> 80,
    front_setback_m |-> 0, side_setback_m |-> 0, rear_setback_m |-> 300,
    min_lot_size_sqm |-> 200, min_frontage_m |-> None, max_dwelling_density |-> "1 per 100sqm"],
   [key |-> "Specialised Centre Zone", zone_category |-> "Centre Zones Category",
    max_height_m |-> 1200, max_storeys |-> 3, max_site_cover_pct |-> 60,
    front_setback_m |-> 600, side_setback_m |-> 300, rear_setback_m |-> 600,
    min_lot_size_sqm |-> 1000, min_frontage_m |-> 20, max_dwelling_density |-> "Caretaker only"]
  >>


\* {} : every rules.get(...) of it is None
NoRules ==
  [key |-> NoneStr, zone_category |-> NoneStr,
   max_height_m |-> None, max_storeys |-> None, max_site_cover_pct |-> None,
   front_setback_m |-> None, side_setback_m |-> None, rear_setback_m |-> None,
   min_lot_size_sqm |-> None, min_frontage_m |-> None, max_dwelling_density |-> NoneStr,
   zone_code |-> NoneStr, source |-> NoneStr]

\* {**rules, "zone_code": code, "source": source}
WithSource(entry, code, source) ==
  [f \in DOMAIN entry \cup {"zone_code", "source"} |->
     IF f = "zone_code" THEN code ELSE IF f = "source" THEN source ELSE entry[f]]

FuzzyMatch(zone_lower, key) ==
  Contains(Lower(key), zone_lower) \/ Contains(zone_lower, Lower(key))

\* the first table entry, in table order, that matches fuzzily; 0 when none does
FirstFuzzy(zone_code) ==
  LET zone_lower == Lower(zone_code)
      hits == {i \in 1..Len(ZONE_RULES) : FuzzyMatch(zone_lower, ZONE_RULES[i].key)}
  IN IF hits = {} THEN 0 ELSE CHOOSE i \in hits : \A j \in hits : i <= j

ExactIndex(zone_code) ==
  IF \E i \in 1..Len(ZONE_RULES) : ZONE_RULES[i].key = zone_code
  THEN CHOOSE i \in 1..Len(ZONE_RULES) : ZONE_RULES[i].key = zone_code
  ELSE 0

\* get_zone_rules(zone_code); NoRules stands for its None
get_zone_rules(zone_code) ==
  LET e == ExactIndex(zone_code) IN
  IF e # 0 THEN WithSource(ZONE_RULES[e], zone_code, "scc_planning_scheme")
  ELSE LET z == FirstFuzzy(zone_code) IN
       IF z # 0 THEN WithSource(ZONE_RULES[z], ZONE_RULES[z].key, "scc_planning_scheme_fuzzy")
       ELSE NoRules

DefaultLga == "Sunshine Coast Regional"

\* try_db_rules(zone_code, lga) over the rows of the planning_rules table
try_db_rules(planning_rules, zone_code, lga) ==
  LET hits == {i \in 1..Len(planning_rules) :
                 planning_rules[i].zone_code = zone_code /\ planning_rules[i].lga = lga}
  IN IF hits = {} THEN NoRules
     ELSE planning_rules[CHOOSE i \in hits : \A j \in hits : i <= j].rules

\* variant: the planning_rules table is consulted before the built-in rules
get_planning_rules_table_first(planning_rules, zone_code, lga) ==
  LET db_rules == try_db_rules(planning_rules, zone_code, lga) IN
  IF db_rules # NoRules THEN db_rules
  ELSE get_zone_rules(zone_code)

\* get_planning_rules(zone_code, lga)
get_planning_rules(planning_rules, zone_code, lga) ==
  LET rules == get_zone_rules(zone_code) IN
  IF rules # NoRules THEN rules
  ELSE try_db_rules(planning_rules, zone_code, lga)

-----------------------------------------------------------------------------
(* calculate_buildability: src/app/services/buildability.py *)

NoZone == [code |-> NoneStr, category |-> NoneStr]

\* f(v, default)
F(v, default) == IF v = None THEN default ELSE v

\* variant: only the caretaker's residence is without entitlement
NoEntitlementCaretaker(density_rule) == density_rule = "Caretaker only"

\* density_rule in ("Caretaker only", "None")
NoEntitlement(density_rule) == density_rule \in {"Caretaker only", "None"}

\* variant: the unit count N of "N per M sqm" is dropped
MaxDwellingsNoUnits(density_rule, area) ==
  IF density_rule = NoneStr \/ density_rule = "" THEN 1
  ELSE IF Contains(density_rule, "per") /\ ~Contains(Lower(density_rule), "lot")
       THEN LET parts == Split(density_rule, "per")
                units == ParseInt(parts[1])
                digits == FilterDigits(parts[2])
            IN IF ~units.ok \/ ~AllDigits(digits) THEN 1
               ELSE LET per_sqm == DigitsValue(digits) IN
                    IF per_sqm > 0 THEN Max(1, area \div per_sqm) ELSE 1
  ELSE IF Contains(Lower(density_rule), "lot") THEN 1
  ELSE IF density_rule \in {"Caretaker only", "None"} THEN 0
  ELSE 1

\* the density branch of calculate_buildability
MaxDwellings(density_rule, area) ==
  IF density_rule = NoneStr \/ density_rule = "" THEN 1
  ELSE IF Contains(density_rule, "per") /\ ~Contains(Lower(density_rule), "lot")
       THEN LET parts == Split(density_rule, "per")
                units == ParseInt(parts[1])
                digits == FilterDigits(parts[2])
            IN IF ~units.ok \/ ~AllDigits(digits) THEN 1
               ELSE LET per_sqm == DigitsValue(digits) IN
                    IF per_sqm > 0 THEN Max(1, (area \div per_sqm) * units.val) ELSE 1
  ELSE IF Contains(Lower(density_rule), "lot") THEN 1
  ELSE IF NoEntitlement(density_rule) THEN 0
  ELSE 1

\* variant: the layers of the height category are noted like any other
NoteTypeHeightNoted(cat) ==
  LET c == Lower(cat) IN
  IF Contains(c, "bushfire") THEN "bushfire"
  ELSE IF Contains(c, "flood") THEN "flood"
  ELSE IF Contains(c, "heritage") \/ Contains(c, "character") THEN "heritage"
  ELSE IF Contains(c, "landslide") THEN "landslide"
  ELSE IF Contains(c, "steep") \/ Contains(c, "slope") THEN "steep_land"
  ELSE IF Contains(c, "biodiversity") \/ Contains(c, "waterway") \/ Contains(c, "wetland")
       THEN "biodiversity"
  ELSE IF Contains(c, "coastal") THEN "coastal"
  ELSE IF Contains(c, "acid") THEN "acid_sulfate"
  ELSE "other"

\* the type of the note one overlay layer of a group of category cat gets
NoteType(cat) ==
  LET c == Lower(cat) IN
  IF Contains(c, "bushfire") THEN "bushfire"
  ELSE IF Contains(c, "flood") THEN "flood"
  ELSE IF Contains(c, "heritage") \/ Contains(c, "character") THEN "heritage"
  ELSE IF Contains(c, "landslide") THEN "landslide"
  ELSE IF Contains(c, "steep") \/ Contains(c, "slope") THEN "steep_land"
  ELSE IF Contains(c, "biodiversity") \/ Contains(c, "waterway") \/ Contains(c, "wetland")
       THEN "biodiversity"
  ELSE IF Contains(c, "coastal") THEN "coastal"
  ELSE IF Contains(c, "acid") THEN "acid_sulfate"
  ELSE IF c # "height of buildings and structures" THEN "other"
  ELSE "none"

RECURSIVE LayerNotes(_, _)
LayerNotes(cat, layers) ==
  IF layers = <<>> THEN <<>>
  ELSE (IF NoteType(cat) = "none" THEN <<>>
        ELSE <<[type |-> NoteType(cat), label |-> Head(layers).label]>>)
       \o LayerNotes(cat, Tail(layers))

RECURSIVE OverlayNotes(_)
OverlayNotes(overlays) ==
  IF overlays = <<>> THEN <<>>
  ELSE LayerNotes(Head(overlays).category, Head(overlays).layers) \o OverlayNotes(Tail(overlays))

\* variant: only a negative area counts as missing
AreaMissingNegative(area) == area < 0

\* not area
AreaMissing(area) == area = 0

\* max(0, side_length - setbacks)
Buildable(side_length, setbacks) == Max(0, side_length - setbacks)

\* variant: the setback rectangle is not clamped at zero
EffectiveFootprintNoClamp(area, max_site_cover, front_setback, side_setback, rear_setback) ==
  LET max_footprint == ((area * Cm2PerM2) \div 100) * max_site_cover
      side_length == Isqrt(area * Cm2PerM2)
      buildable_width == side_length - 2 * side_setback
      buildable_depth == side_length - (front_setback + rear_setback)
  IN Min(max_footprint, buildable_width * buildable_depth)

\* min(max_footprint, buildable_width * buildable_depth), in square centimetres
EffectiveFootprint(area, max_site_cover, front_setback, side_setback, rear_setback) ==
  LET max_footprint == ((area * Cm2PerM2) \div 100) * max_site_cover
      side_length == Isqrt(area * Cm2PerM2)
      buildable_width == Buildable(side_length, 2 * side_setback)
      buildable_depth == Buildable(side_length, front_setback + rear_setback)
  IN Min(max_footprint, buildable_width * buildable_depth)

BuildableAreaAfterSetbacks(area, front_setback, side_setback, rear_setback) ==
  LET side_length == Isqrt(area * Cm2PerM2)
  IN Buildable(side_length, 2 * side_setback)
       * Buildable(side_length, front_setback + rear_setback)

\* variant: one minimum lot is enough to subdivide
CanSubdivideOneLot(area, min_lot_size) ==
  IF min_lot_size # 0 THEN area >= min_lot_size ELSE FALSE

CanSubdivide(area, min_lot_size) ==
  IF min_lot_size # 0 THEN area >= min_lot_size * 2 ELSE FALSE

\* variant: a started lot counts as a lot
MaxNewLotsRoundedUp(area, min_lot_size) ==
  IF min_lot_size # 0 /\ min_lot_size > 0
  THEN (area + min_lot_size - 1) \div min_lot_size ELSE 0

MaxNewLots(area, min_lot_size) ==
  IF min_lot_size # 0 /\ min_lot_size > 0 THEN area \div min_lot_size ELSE 0

calculate_buildability(parcel, zone, rules0, overlays, height_override) ==
  LET area == IF parcel.area_sqm = None THEN 0 ELSE parcel.area_sqm
      zone_code == IF zone # NoZone THEN zone.code ELSE "Unknown"
      zone_category == IF zone # NoZone THEN zone.category ELSE ""
      rules == IF rules0 = NoRules THEN get_zone_rules(zone_code) ELSE rules0
  IN
  IF AreaMissing(area)
  THEN [zone |-> [code |-> zone_code, category |-> zone_category],
        error |-> "No lot area data - cannot calculate buildability"]
  ELSE
  LET max_height == IF height_override # None /\ height_override # 0
                    THEN height_override ELSE rules.max_height_m
      max_storeys == rules.max_storeys
      max_site_cover == F(rules.max_site_cover_pct, 50)
      front_setback == F(rules.front_setback_m, 6 * CmPerM)
      side_setback == F(rules.side_setback_m, (3 * CmPerM) \div 2)
      rear_setback == F(rules.rear_setback_m, 6 * CmPerM)
      min_lot_size == F(rules.min_lot_size_sqm, 0)
      min_frontage == rules.min_frontage_m
      density_rule == rules.max_dwelling_density
      buildable_area_after_setbacks ==
        BuildableAreaAfterSetbacks(area, front_setback, side_setback, rear_setback)
      effective_footprint ==
        EffectiveFootprint(area, max_site_cover, front_setback, side_setback, rear_setback)
      storeys == IF max_storeys = None \/ max_storeys = 0 THEN 1 ELSE max_storeys
      max_gfa == effective_footprint * storeys
      max_dwellings == MaxDwellings(density_rule, area)
      can_subdivide == CanSubdivide(area, min_lot_size)
      max_new_lots == MaxNewLots(area, min_lot_size)
      lot_short == min_lot_size # 0 /\ area < min_lot_size
      issues == (IF lot_short
                 THEN <<"Lot is " \o ToString(area) \o "m2 but zone requires min "
                         \o ToString(min_lot_size) \o "m2">>
                 ELSE <<>>)
                \o (IF min_frontage # None /\ min_frontage # 0
                    THEN <<"Check frontage >= " \o ToString(min_frontage)
                            \o "m (unable to verify without survey)">>
                    ELSE <<>>)
  IN [zone |-> [code |-> zone_code, category |-> zone_category, source |-> "scc_arcgis"],
      rules |-> [max_height_m |-> IF max_height # None /\ max_height # 0 THEN max_height ELSE None,
                 max_storeys |-> max_storeys,
                 min_lot_size_sqm |-> IF min_lot_size # 0 THEN min_lot_size ELSE None,
                 max_site_cover_pct |-> max_site_cover,
                 front_setback_m |-> front_setback,
                 side_setback_m |-> side_setback,
                 rear_setback_m |-> rear_setback,
                 min_frontage_m |-> IF min_frontage # None /\ min_frontage # 0
                                    THEN min_frontage ELSE None],
      buildable_envelope |-> [max_footprint_sqm |-> effective_footprint,
                              max_gfa_sqm |-> max_gfa,
                              max_dwellings |-> max_dwellings,
                              buildable_area_after_setbacks_sqm |-> buildable_area_after_setbacks],
      subdivision |-> [can_subdivide |-> can_subdivide,
                       max_new_lots |-> max_new_lots,
                       min_lot_size_sqm |-> IF min_lot_size # 0 THEN min_lot_size ELSE None],
      constraints |-> OverlayNotes(overlays),
      lot_compliance |-> [compliant |-> ~lot_short, issues |-> issues]]

-----------------------------------------------------------------------------
(* The calculator under check: one call on arguments drawn from bounded sets *)

AreaStep == 100
MaxAreaSteps == 12

\* None (unknown), 0, multiples of AreaStep, values next to the lot-size limits
BuildAreas ==
  {None} \cup {k * AreaStep : k \in 0..MaxAreaSteps} \cup {30, 399, 850, 4000, 8000}

ExactZoneCodes == {ZONE_RULES[i].key : i \in 1..Len(ZONE_RULES)}
FuzzyZoneCodes == {"Rural", "low density residential zone", "Residential", ""}
UnknownZoneCodes == {"Township Zone", "Limited Development", "Unknown"}

BuildZones ==
  {NoZone} \cup
  {[code |-> c, category |-> "Zones Category"] :
      c \in ExactZoneCodes \cup FuzzyZoneCodes \cup UnknownZoneCodes}

\* rule sets as the planning_rules table can hold them
CustomRule(density, min_lot, cover, side, front_rear) ==
  [key |-> NoneStr, zone_category |-> NoneStr,
   max_height_m |-> 9 * CmPerM, max_storeys |-> None, max_site_cover_pct |-> cover,
   front_setback_m |-> front_rear, side_setback_m |-> side, rear_setback_m |-> front_rear,
   min_lot_size_sqm |-> min_lot, min_frontage_m |-> None, max_dwelling_density |-> density,
   zone_code |-> "Township Zone", source |-> "planning_rules"]

CustomRules ==
  {CustomRule("2 per 400sqm", 450, 40, 2 * CmPerM, 4 * CmPerM),
   CustomRule("1 per 0sqm", None, 100, 0, 0),
   CustomRule("one per 200sqm", 0, 50, None, None),
   CustomRule("1 per lot or 1 per 500sqm", 500, 60, 20 * CmPerM, 3 * CmPerM),
   CustomRule("3 per", 250, 25, CmPerM, CmPerM)}

Layer(id, label) == [layer_id |-> id, name |-> label, label |-> label]

BuildOverlays ==
  {<<>>,
   <<[category |-> "Bushfire Hazard", layers |-> <<Layer(32, "High Bushfire Hazard Area")>>]>>,
   <<[category |-> "Height of Buildings and Structures", layers |-> <<Layer(50, "12 metres")>>],
     [category |-> "Flood Hazard",
      layers |-> <<Layer(46, "Flooding and Inundation Area"), Layer(47, "Drainage Deficient Areas")>>]>>,
   <<[category |-> "Airport Environs", layers |-> <<Layer(9, "Obstacle Limitation Surface (OLS)")>>]>>,
   <<[category |-> "Landslide Hazard and Steep Land",
      layers |-> <<Layer(60, "Landslide Hazard Area"), Layer(61, "Steep Land (slope 15% or more)")>>],
     [category |-> "Steep Land", layers |-> <<Layer(62, "Slope 25% or more")>>]>>,
   <<[category |-> "Heritage and Character Areas", layers |-> <<Layer(55, "Character Area")>>],
     [category |-> "Height of Buildings and Structures",
      layers |-> <<Layer(50, "8.5 metres"), Layer(50, "12 metres")>>],
     [category |-> "Biodiversity, Waterways and Wetlands",
      layers |-> <<Layer(20, "Native Vegetation Area"), Layer(21, "Riparian Protection Area")>>]>>,
   <<[category |-> "Coastal Protection", layers |-> <<Layer(40, "Coastal Protection Area")>>],
     [category |-> "Flood Hazard", layers |-> <<>>],
     [category |-> "Acid Sulfate Soils", layers |-> <<Layer(5, "Area 1"), Layer(6, "Area 2")>>]>>}

HeightOverrides == {None, 12 * CmPerM}

\* the arguments of one call, and the planning_rules table of the local index
Args(parcel, zone, rules, overlays, height_override, planning_rules) ==
  [parcel |-> parcel, zone |-> zone, rules |-> rules, overlays |-> overlays,
   height_override |-> height_override, planning_rules |-> planning_rules]

TownshipZone == [code |-> "Township Zone", category |-> "Zones Category"]

PlanningRulesRow(r) == [zone_code |-> TownshipZone.code, lga |-> DefaultLga, rules |-> r]

Parcels(areas) == {[area_sqm |-> a] : a \in areas}

\* every zone with every area, the rules left to the calculator's own lookup
ZoneSweep ==
  {Args(p, z, NoRules, <<>>, h, <<>>) :
     p \in Parcels(BuildAreas), z \in BuildZones, h \in HeightOverrides}

\* every rule set of the planning_rules table, fetched by the caller with
\* get_planning_rules, with every area
RuleSweep ==
  {Args(p, TownshipZone,
        get_planning_rules(<<PlanningRulesRow(r)>>, TownshipZone.code, DefaultLga),
        <<>>, None, <<PlanningRulesRow(r)>>) :
     p \in Parcels(BuildAreas), r \in CustomRules}

\* every overlay list on a few parcels
OverlaySweep ==
  {Args(p, z, NoRules, o, h, <<>>) :
     p \in Parcels({None, 399, 6 * AreaStep}),
     z \in {NoZone, [code |-> "Low Density Residential Zone", category |-> "Zones Category"]},
     o \in BuildOverlays, h \in HeightOverrides}

BuildArgs == ZoneSweep \cup RuleSweep \cup OverlaySweep

InitBuild ==
  /\ pc = "call"
  /\ args \in BuildArgs
  /\ ret = NoRet
  /\ ResolveIdle
  /\ ReportIdle

Calculate ==
  /\ pc = "call"
  /\ ret' = calculate_buildability(args.parcel, args.zone, args.rules,
                                   args.overlays, args.height_override)
  /\ pc' = "return"
  /\ UNCHANGED <<args, resolveVars, reportVars>>

NextBuild == Calculate

SpecBuild == InitBuild /\ [][NextBuild]_vars

-----------------------------------------------------------------------------
(* _calculate_constraints_score: src/app/services/ai_summary.py *)

\* {} ; a dict is a record, the empty dict this record without any key of use
EmptyDict == [empty |-> TRUE]

\* d.get(k, default)
Get(d, k, default) == IF k \in DOMAIN d THEN d[k] ELSE default

\* one step of the scorer: the amount taken off the score and the text appended
Deduction(amount, text) == [amount |-> amount, text |-> text]

\* f"{label} (-{amount})"
Minus(label, amount) == Deduction(amount, label \o " (-" \o ToString(amount) \o ")")

\* the deduction of one overlay group, <<>> when its category is not scored
GroupDeduction(group) ==
  LET cat == Lower(IF group.category = NoneStr THEN "" ELSE group.category)
      count == Len(group.layers)
  IN IF Contains(cat, "bushfire") THEN <<Minus("Bushfire overlay", 12 * count)>>
     ELSE IF Contains(cat, "flood") THEN <<Minus("Flood overlay", 15 * count)>>
     ELSE IF Contains(cat, "heritage") \/ Contains(cat, "character")
          THEN <<Minus("Heritage/Character", 8 * count)>>
     ELSE IF Contains(cat, "landslide") THEN <<Minus("Landslide hazard", 15)>>
     ELSE IF Contains(cat, "steep") \/ Contains(cat, "slope") THEN <<Minus("Steep land", 10)>>
     ELSE IF Contains(cat, "biodiversity") \/ Contains(cat, "waterway") \/ Contains(cat, "wetland")
          THEN <<Minus("Biodiversity/Waterway", 10 * count)>>
     ELSE IF Contains(cat, "coastal") THEN <<Minus("Coastal protection", 10 * count)>>
     ELSE IF Contains(cat, "acid") THEN <<Minus("Acid sulfate soils", 5)>>
     ELSE IF Contains(cat, "scenic") THEN <<Minus("Scenic amenity", 5)>>
     ELSE <<>>

RECURSIVE OverlayDeductionsLastFirst(_)
RECURSIVE OverlayDeductions(_)
\* variant: the groups are taken last to first
OverlayDeductionsLastFirst(overlays) ==
  IF overlays = <<>> THEN <<>>
  ELSE OverlayDeductionsLastFirst(Tail(overlays)) \o GroupDeduction(Head(overlays))

OverlayDeductions(overlays) ==
  IF overlays = <<>> THEN <<>>
  ELSE GroupDeduction(Head(overlays)) \o OverlayDeductions(Tail(overlays))

\* variant: direct flood mapping costs 10
FloodDeductionsTen(flood_info) ==
  IF flood_info # EmptyDict /\ Get(flood_info, "has_flood_data", FALSE)
  THEN <<Minus("Direct flood mapping", 10)>> ELSE <<>>

FloodDeductions(flood_info) ==
  IF flood_info # EmptyDict /\ Get(flood_info, "has_flood_data", FALSE)
  THEN <<Minus("Direct flood mapping", 15)>> ELSE <<>>

\* a status is truthy when it is neither None nor ""
HasStatus(d) == Get(d, "status", NoneStr) \notin {NoneStr, ""}

ConstraintDeductions(constraints) ==
  IF constraints = EmptyDict THEN <<>>
  ELSE LET ease_count == Get(constraints, "easements_count", 0)
           cov_count == Get(constraints, "covenants_count", 0)
       IN (IF ease_count > 0
           THEN <<Minus("Easements (" \o ToString(ease_count) \o ")", 5 * ease_count)>>
           ELSE <<>>)
          \o (IF cov_count > 0
              THEN <<Minus("Covenants (" \o ToString(cov_count) \o ")", 5 * cov_count)>>
              ELSE <<>>)
          \o (IF HasStatus(Get(constraints, "koala", EmptyDict))
              THEN <<Minus("Koala habitat", 10)>> ELSE <<>>)
          \o (IF HasStatus(Get(constraints, "esa", EmptyDict))
              THEN <<Minus("ESA area", 10)>> ELSE <<>>)

\* infrastructure.get(service, {}).get("available")
Available(infrastructure, service) ==
  Get(Get(infrastructure, service, EmptyDict), "available", FALSE)

\* variant: the deduction is made for the services that are available
InfrastructureDeductionsInverted(infrastructure) ==
  IF infrastructure = EmptyDict THEN <<>>
  ELSE (IF Available(infrastructure, "water")
        THEN <<Minus("No reticulated water", 8)>> ELSE <<>>)
       \o (IF Available(infrastructure, "sewer")
           THEN <<Minus("No reticulated sewer", 8)>> ELSE <<>>)

InfrastructureDeductions(infrastructure) ==
  IF infrastructure = EmptyDict THEN <<>>
  ELSE (IF ~Available(infrastructure, "water")
        THEN <<Minus("No reticulated water", 8)>> ELSE <<>>)
       \o (IF ~Available(infrastructure, "sewer")
           THEN <<Minus("No reticulated sewer", 8)>> ELSE <<>>)

ComplianceDeductions(buildability) ==
  IF buildability = EmptyDict THEN <<>>
  ELSE IF ~Get(Get(buildability, "lot_compliance", EmptyDict), "compliant", TRUE)
       THEN <<Minus("Lot non-compliant", 5)>> ELSE <<>>

RECURSIVE SumAmounts(_)
SumAmounts(steps) ==
  IF steps = <<>> THEN 0 ELSE Head(steps).amount + SumAmounts(Tail(steps))

\* variant: no lower clamp
ClampUpperOnly(score) == Min(100, score)

\* max(1, min(100, score))
Clamp(score) == Max(1, Min(100, score))

\* _calculate_constraints_score; the tuple (score, deductions) as a record
calculate_constraints_score(overlays, flood_info, constraints, infrastructure, buildability) ==
  LET steps == OverlayDeductions(overlays)
                 \o FloodDeductions(flood_info)
                 \o ConstraintDeductions(constraints)
                 \o InfrastructureDeductions(infrastructure)
                 \o ComplianceDeductions(buildability)
  IN [score |-> Clamp(100 - SumAmounts(steps)),
      deductions |-> [i \in 1..Len(steps) |-> steps[i].text]]

-----------------------------------------------------------------------------
(* The scorer under check: one call on arguments drawn from bounded sets *)

MaxLayers == 3
MaxGroups == 2
MaxCount == 2

RECURSIVE SeqsUpTo(_, _)
SeqsUpTo(S, n) ==
  IF n = 0 THEN {<<>>}
  ELSE LET shorter == SeqsUpTo(S, n - 1)
       IN shorter \cup {Append(q, x) : q \in shorter, x \in S}

LayersOf(n) == [i \in 1..n |-> Layer(i, "Layer " \o ToString(i))]

Group(category, n) == [category |-> category, layers |-> LayersOf(n)]

\* one category for every branch of the scorer, one it does not score, None
ScoreCategories ==
  {NoneStr, "Bushfire Hazard", "Flood Hazard", "Heritage and Character Areas",
   "Landslide Hazard", "Steep Land", "Biodiversity, Waterways and Wetlands",
   "Coastal Protection", "Acid Sulfate Soils", "Scenic Amenity", "Airport Environs"}

SingleGroupLists == {<<Group(c, n)>> : c \in ScoreCategories, n \in 0..MaxLayers}

MultiGroupLists ==
  SeqsUpTo({Group(c, n) : c \in {"Flood Hazard", "Bushfire Hazard", "Landslide Hazard",
                                 "Scenic Amenity", "Airport Environs"},
                          n \in {1, MaxLayers}}, MaxGroups)

HeavyOverlays == <<Group("Flood Hazard", MaxLayers), Group("Flood Hazard", MaxLayers)>>

FloodInfos == {EmptyDict, [has_flood_data |-> FALSE], [has_flood_data |-> TRUE]}

ConstraintInfos ==
  {EmptyDict} \cup
  {[easements_count |-> e, covenants_count |-> c, koala |-> [status |-> k], esa |-> [status |-> a]] :
     e \in 0..MaxCount, c \in 0..MaxCount,
     k \in {NoneStr, "Koala Habitat Area"}, a \in {NoneStr, "Category B ESA"}}

InfrastructureInfos ==
  {EmptyDict, [water |-> [available |-> TRUE]]} \cup
  {[water |-> [available |-> w], sewer |-> [available |-> x]] : w \in BOOLEAN, x \in BOOLEAN}

BuildabilityInfos ==
  {EmptyDict,
   [zone |-> [code |-> "Unknown", category |-> ""],
    error |-> "No lot area data - cannot calculate buildability"]} \cup
  {[lot_compliance |-> [compliant |-> b, issues |-> <<>>]] : b \in BOOLEAN}

ScoreInput(overlays, flood_info, constraints, infrastructure, buildability) ==
  [overlays |-> overlays, flood_info |-> flood_info, constraints |-> constraints,
   infrastructure |-> infrastructure, buildability |-> buildability]

\* every overlay list, with and without the heaviest other findings
ScoreOverlaySweep ==
  {ScoreInput(o, f, c, EmptyDict, EmptyDict) :
     o \in SingleGroupLists \cup MultiGroupLists,
     f \in {EmptyDict, [has_flood_data |-> TRUE]},
     c \in {EmptyDict,
            [easements_count |-> MaxCount, covenants_count |-> MaxCount,
             koala |-> [status |-> "Core Koala Habitat"], esa |-> [status |-> "Category A ESA"]]}}

\* every combination of the other findings, without overlays and with the heaviest
ScoreOtherSweep ==
  {ScoreInput(o, f, c, i, b) :
     o \in {<<>>, HeavyOverlays}, f \in FloodInfos, c \in ConstraintInfos,
     i \in InfrastructureInfos, b \in BuildabilityInfos}

ScoreArgs == ScoreOverlaySweep \cup ScoreOtherSweep

InitScore ==
  /\ pc = "call"
  /\ args \in ScoreArgs
  /\ ret = NoRet
  /\ ResolveIdle
  /\ ReportIdle

Score ==
  /\ pc = "call"
  /\ ret' = calculate_constraints_score(args.overlays, args.flood_info, args.constraints,
                                        args.infrastructure, args.buildability)
  /\ pc' = "return"
  /\ UNCHANGED <<args, resolveVars, reportVars>>

NextScore == Score

SpecScore == InitScore /\ [][NextScore]_vars

-----------------------------------------------------------------------------
(* The scorer called twice: on some arguments, and on the same arguments   *)
(* with one more deduction-triggering input                                *)

\* the arguments a with one more deduction-triggering input: a group or a
\* layer more, direct flood mapping, an easement or a covenant more, a koala
\* or ESA status, water or sewer unavailable, the lot non-compliant
MoreConstrained(a) ==
  LET c == IF a.constraints = EmptyDict
           THEN [easements_count |-> 0, covenants_count |-> 0, koala |-> [status |-> NoneStr],
                 esa |-> [status |-> NoneStr]]
           ELSE a.constraints
      i == [water |-> [available |-> Available(a.infrastructure, "water")],
            sewer |-> [available |-> Available(a.infrastructure, "sewer")]]
  IN {[a EXCEPT !.overlays = Append(@, Group(cat, 1))] : cat \in ScoreCategories}
     \cup {[a EXCEPT !.overlays[k].layers = Append(@, Layer(99, "One more"))] :
             k \in 1..Len(a.overlays)}
     \cup {[a EXCEPT !.flood_info = [has_flood_data |-> TRUE]],
           [a EXCEPT !.constraints = [c EXCEPT !.easements_count = @ + 1]],
           [a EXCEPT !.constraints = [c EXCEPT !.covenants_count = @ + 1]],
           [a EXCEPT !.constraints = [c EXCEPT !.koala.status = "Koala Priority Area"]],
           [a EXCEPT !.constraints = [c EXCEPT !.esa.status = "Category A ESA"]],
           [a EXCEPT !.infrastructure = [i EXCEPT !.water.available = FALSE]],
           [a EXCEPT !.infrastructure = [i EXCEPT !.sewer.available = FALSE]],
           [a EXCEPT !.buildability = [lot_compliance |-> [compliant |-> FALSE, issues |-> <<>>]]]}

\* the other findings of the first call: none, all clear, some, the heaviest
MonotoneFindings ==
  {ScoreInput(<<>>, EmptyDict, EmptyDict, EmptyDict, EmptyDict),
   ScoreInput(<<>>, [has_flood_data |-> FALSE],
              [easements_count |-> 0, covenants_count |-> 0, koala |-> [status |-> NoneStr],
               esa |-> [status |-> NoneStr]],
              [water |-> [available |-> TRUE], sewer |-> [available |-> TRUE]],
              [lot_compliance |-> [compliant |-> TRUE, issues |-> <<>>]]),
   ScoreInput(<<>>, [has_flood_data |-> TRUE],
              [easements_count |-> 1, covenants_count |-> 0, koala |-> [status |-> NoneStr],
               esa |-> [status |-> "Category B ESA"]],
              [water |-> [available |-> TRUE]], EmptyDict),
   ScoreInput(<<>>, [has_flood_data |-> TRUE],
              [easements_count |-> MaxCount, covenants_count |-> MaxCount,
               koala |-> [status |-> "Core Koala Habitat"], esa |-> [status |-> "Category A ESA"]],
              [water |-> [available |-> FALSE], sewer |-> [available |-> FALSE]],
              [lot_compliance |-> [compliant |-> FALSE, issues |-> <<>>]])}

\* the first calls: every category with one layer and with MaxLayers, no
\* overlay and the heaviest, with each of the other findings
MonotoneBases ==
  {[f EXCEPT !.overlays = o] :
     f \in MonotoneFindings,
     o \in {<<>>, HeavyOverlays}
           \cup {<<Group(cat, n)>> : cat \in ScoreCategories, n \in {1, MaxLayers}}}

MonotoneArgs == {[base |-> a, more |-> m] : <<a, m>> \in UNION {{a} \X MoreConstrained(a) : a \in MonotoneBases}}

InitMonotone ==
  /\ pc = "call"
  /\ args \in MonotoneArgs
  /\ ret = NoRet
  /\ ResolveIdle
  /\ ReportIdle

\* the two calls
ScoreTwice ==
  /\ pc = "call"
  /\ ret' = [base |-> calculate_constraints_score(args.base.overlays, args.base.flood_info,
                                                   args.base.constraints,
                                                   args.base.infrastructure,
                                                   args.base.buildability),
             more |-> calculate_constraints_score(args.more.overlays, args.more.flood_info,
                                                   args.more.constraints,
                                                   args.more.infrastructure,
                                                   args.more.buildability)]
  /\ pc' = "compared"
  /\ UNCHANGED <<args, resolveVars, reportVars>>

NextMonotone == ScoreTwice

SpecMonotone == InitMonotone /\ [][NextMonotone]_vars

-----------------------------------------------------------------------------
(* The local index (services/db.py) and the remote authority               *)
(* (services/qld_spatial.py)                                               *)

\* None returned by a parcel lookup
NoParcel == [none |-> TRUE]

\* a null geometry
NoGeometry == [type |-> NoneStr, coordinates |-> <<>>]

\* Python truthiness of a string and of a number
TruthyStr(x) == x \notin {NoneStr, ""}
TruthyNum(x) == x \notin {None, 0}

\* str.replace(old, new), old not empty
RECURSIVE Replace(_, _, _)
Replace(s, old, new) ==
  IF Len(s) < Len(old) THEN s
  ELSE IF SubSeq(s, 1, Len(old)) = old
       THEN new \o Replace(SubSeq(s, Len(old) + 1, Len(s)), old, new)
       ELSE SubSeq(s, 1, 1) \o Replace(SubSeq(s, 2, Len(s)), old, new)

\* for abbr, full in table.items(): t = t.replace(abbr, full)
RECURSIVE ReplaceEach(_, _)
ReplaceEach(t, table) ==
  IF table = <<>> THEN t
  ELSE ReplaceEach(Replace(t, Head(table)[1], Head(table)[2]), Tail(table))

STREET_ABBREVS_DB ==
  << <<" St ", " Street ">>, <<" Rd ", " Road ">>, <<" Ave ", " Avenue ">>,
     <<" Dr ", " Drive ">>, <<" Ct ", " Court ">>, <<" Pl ", " Place ">>,
     <<" Cres ", " Crescent ">>, <<" Tce ", " Terrace ">>, <<" Ln ", " Lane ">>,
     <<" Pde ", " Parade ">>, <<" Blvd ", " Boulevard ">>, <<" Hwy ", " Highway ">>,
     <<" Cct ", " Circuit ">>, <<" Esp ", " Esplanade ">>, <<" Cl ", " Close ">> >>

_expand_abbrevs(text) == Strip(ReplaceEach(text \o " ", STREET_ABBREVS_DB))

STREET_ABBREVS ==
  << <<" St ", " Street ">>, <<" St,", " Street,">>, <<" Rd ", " Road ">>, <<" Rd,", " Road,">>,
     <<" Ave ", " Avenue ">>, <<" Ave,", " Avenue,">>, <<" Dr ", " Drive ">>, <<" Dr,", " Drive,">>,
     <<" Ct ", " Court ">>, <<" Ct,", " Court,">>, <<" Pl ", " Place ">>, <<" Pl,", " Place,">>,
     <<" Cres ", " Crescent ">>, <<" Cres,", " Crescent,">>, <<" Tce ", " Terrace ">>,
     <<" Ln ", " Lane ">>, <<" Pde ", " Parade ">>, <<" Blvd ", " Boulevard ">>,
     <<" Hwy ", " Highway ">>, <<" Cct ", " Circuit ">>, <<" Esp ", " Esplanade ">>,
     <<" Cl ", " Close ">>, <<" Gr ", " Grove ">>, <<" Way ", " Way ">> >>

_expand_street_abbrevs(text) == Strip(ReplaceEach(text \o " ", STREET_ABBREVS))

\* the bounding box of a polygon's outer ring; the parcels of the model are
\* rectangles with sides along the axes, vertices <<lng, lat>>
RingMin(geom, k) ==
  LET ring == geom.coordinates[1]
  IN CHOOSE v \in {ring[i][k] : i \in 1..Len(ring)} : \A i \in 1..Len(ring) : v <= ring[i][k]

RingMax(geom, k) ==
  LET ring == geom.coordinates[1]
  IN CHOOSE v \in {ring[i][k] : i \in 1..Len(ring)} : \A i \in 1..Len(ring) : v >= ring[i][k]

\* ST_Contains(geom, point): the point is in the interior
ST_Contains(geom, lat, lng) ==
  /\ geom # NoGeometry
  /\ RingMin(geom, 1) < lng /\ lng < RingMax(geom, 1)
  /\ RingMin(geom, 2) < lat /\ lat < RingMax(geom, 2)

\* esriSpatialRelIntersects: the point is in the interior or on the boundary
Intersects(geom, lat, lng) ==
  /\ geom # NoGeometry
  /\ RingMin(geom, 1) <= lng /\ lng <= RingMax(geom, 1)
  /\ RingMin(geom, 2) <= lat /\ lat <= RingMax(geom, 2)

\* db_available(): the index answers and the parcels table is not empty
db_available(w, up) == up /\ Len(w.parcels) > 0

\* search_addresses_db(query, limit); the addresses table is kept in
\* full_address order
search_addresses_db(addresses, query, limit) ==
  LET expanded == Lower(_expand_abbrevs(query))
      hits == SelectSeq(addresses, LAMBDA r : Contains(Lower(r.full_address), expanded))
  IN [i \in 1..Min(limit, Len(hits)) |->
        [address |-> hits[i].full_address, locality |-> hits[i].locality,
         lot |-> hits[i].lot, plan |-> hits[i].plan_number, lotplan |-> hits[i].lotplan,
         lat |-> hits[i].lat, lng |-> hits[i].lng]]

\* ORDER BY CASE WHEN cover_type = 'Base' THEN 0 ELSE 1 END LIMIT 1
BaseRowFirst(rows) ==
  LET base == SelectSeq(rows, LAMBDA r : r.cover_type = "Base")
  IN IF base # <<>> THEN Head(base) ELSE Head(rows)

\* the dict both local lookups build from a row
RowParcel(row) ==
  [parcel |-> [lot |-> row.lot, plan |-> row.plan_number,
               lot_plan |-> row.lot \o "/" \o row.plan_number,
               lotplan |-> row.lotplan, parcel_type |-> row.parcel_type,
               cover_type |-> row.cover_type, tenure |-> row.tenure,
               area_sqm |-> IF TruthyNum(row.area_sqm) THEN row.area_sqm ELSE None,
               locality |-> row.locality, shire_name |-> row.shire_name,
               feature_name |-> row.feature_name],
   geometry |-> row.geometry,
   address |-> EmptyDict]

get_parcel_by_lotplan_db(parcels, lot, plan) ==
  LET rows == SelectSeq(parcels, LAMBDA r : /\ r.lot = lot /\ r.plan_number = plan
                                            /\ r.cover_type \in {"Base", NoneStr})
  IN IF rows = <<>> THEN NoParcel ELSE RowParcel(BaseRowFirst(rows))

get_parcel_by_point_db(parcels, lat, lng) ==
  LET rows == SelectSeq(parcels, LAMBDA r : ST_Contains(r.geometry, lat, lng))
  IN IF rows = <<>> THEN NoParcel ELSE RowParcel(BaseRowFirst(rows))

\* result_record_count of the remote parcel queries
ParcelRecordCount == 5

\* q = query.strip().replace("'", "''"), then the literal the service matches
SqlLiteral(query) == Replace(_expand_street_abbrevs(Replace(Strip(query), "'", "''")), "''", "'")

\* search_addresses(query, limit)
search_addresses(features, query, limit) ==
  LET q == SqlLiteral(query)
      hits == SelectSeq(features, LAMBDA f : Contains(f.properties.address, q))
  IN [i \in 1..Min(limit, Len(hits)) |->
        LET props == hits[i].properties
            geom == hits[i].geometry
        IN [address |-> props.address, locality |-> props.locality,
            lot |-> props.lot, plan |-> props.plan, lotplan |-> props.lotplan,
            lat |-> IF geom # NoGeometry THEN geom.coordinates[2] ELSE None,
            lng |-> IF geom # NoGeometry THEN geom.coordinates[1] ELSE None]]

\* _format_parcel(feature)
_format_parcel(feature) ==
  LET props == feature.properties
  IN [parcel |-> [lot |-> props.lot, plan |-> props.plan,
                  lot_plan |-> props.lot \o "/" \o props.plan,
                  lotplan |-> props.lotplan, parcel_type |-> props.parcel_typ,
                  cover_type |-> props.cover_typ, tenure |-> props.tenure,
                  area_sqm |-> props.lot_area,
                  locality |-> props.locality, shire_name |-> props.shire_name,
                  feature_name |-> props.feat_name],
      geometry |-> feature.geometry,
      address |-> EmptyDict]

\* base[0] if base else features[0], over the first ParcelRecordCount features
BaseFeatureFirst(found) ==
  LET features == SubSeq(found, 1, Min(ParcelRecordCount, Len(found)))
      base == SelectSeq(features, LAMBDA f : f.properties.cover_typ = "Base")
  IN IF base # <<>> THEN Head(base) ELSE Head(features)

get_parcel_by_lotplan(features, lot, plan) ==
  LET found == SelectSeq(features, LAMBDA f : f.properties.lot = lot /\ f.properties.plan = plan)
  IN IF found = <<>> THEN NoParcel ELSE _format_parcel(BaseFeatureFirst(found))

get_parcel_by_point(features, lat, lng) ==
  LET found == SelectSeq(features, LAMBDA f : Intersects(f.geometry, lat, lng))
  IN IF found = <<>> THEN NoParcel ELSE _format_parcel(BaseFeatureFirst(found))

\* get_tenure_for_parcel(lot, plan); NoneStr for None
get_tenure_for_parcel(tenures, lot, plan) ==
  LET found == SelectSeq(tenures, LAMBDA f : f.properties.lot = lot /\ f.properties.plan = plan)
  IN IF found = <<>> THEN NoneStr ELSE Head(found).properties.tenure

-----------------------------------------------------------------------------
(* Resolution of the selector: routers/lookup.py, routers/ai_summary.py,   *)
(* routers/buildability.py                                                 *)

\* one lookup issued to a tier, and whether it found anything
Call(tier, op, hit) == [tier |-> tier, op |-> op, hit |-> hit]

NoPoint == <<None, None>>

\* the request ended with an HTTP error
Failed(status, detail, trace) ==
  [status |-> status, detail |-> detail, parcel_data |-> NoParcel, point |-> NoPoint,
   calls |-> trace]

\* the request has its parcel
Resolved(parcel_data, trace) ==
  [status |-> 200, detail |-> "", parcel_data |-> parcel_data, point |-> NoPoint,
   calls |-> trace]

NotTried == [raised |-> FALSE, value |-> NoParcel, calls |-> <<>>]

\* if db: parcel_data = local lookup
\* if not parcel_data: parcel_data = await remote lookup
\* a local lookup raises when the index does not answer
TwoTier(db, up, op, local, remote) ==
  IF db /\ ~up
  THEN [raised |-> TRUE, value |-> NoParcel, calls |-> <<Call("local", op, FALSE)>>]
  ELSE IF db /\ local # NoParcel
       THEN [raised |-> FALSE, value |-> local, calls |-> <<Call("local", op, TRUE)>>]
       ELSE [raised |-> FALSE, value |-> remote,
             calls |-> (IF db THEN <<Call("local", op, FALSE)>> ELSE <<>>)
                         \o <<Call("remote", op, remote # NoParcel)>>]

ByLotplan(db, up, w, lot, plan) ==
  Only({TwoTier(db, up, "lotplan", local, remote) :
          local \in {get_parcel_by_lotplan_db(w.parcels, lot, plan)},
          remote \in {get_parcel_by_lotplan(w.features, lot, plan)}})

ByPoint(db, up, w, lat, lng) ==
  Only({TwoTier(db, up, "point", local, remote) :
          local \in {get_parcel_by_point_db(w.parcels, lat, lng)},
          remote \in {get_parcel_by_point(w.features, lat, lng)}})

\* the address branch of site_report and ai_summary, the two lookups done
Candidate(addr, byLot, byPoint, c0) ==
  LET parcel_data == IF byLot.value # NoParcel THEN byLot.value ELSE byPoint.value
      trace == c0 \o byLot.calls \o byPoint.calls
  IN IF byLot.raised \/ byPoint.raised THEN Failed(500, "Internal Server Error", trace)
     ELSE IF parcel_data # NoParcel
          THEN Resolved([parcel_data EXCEPT !.address = addr], trace)
          ELSE Failed(404, "Found address but no parcel", trace)

\* variant: the coordinate of the candidate is looked up whatever the lot /
\* plan lookup found
FromCandidateBothLookups(addr, db, up, w, c0) ==
  LET a_lot == addr.lot
      a_plan == IF TruthyStr(addr.plan) THEN addr.plan ELSE Get(addr, "plan_number", NoneStr)
  IN Only({Only({Candidate(addr, byLot, byPoint, c0) :
                   byPoint \in {IF TruthyNum(addr.lat) /\ TruthyNum(addr.lng)
                                 THEN ByPoint(db, up, w, addr.lat, addr.lng) ELSE NotTried}}) :
             byLot \in {IF TruthyStr(a_lot) /\ TruthyStr(a_plan)
                         THEN ByLotplan(db, up, w, a_lot, a_plan) ELSE NotTried}})

\* the address branch of site_report and ai_summary, the search done
FromCandidate(addr, db, up, w, c0) ==
  LET a_lot == addr.lot
      a_plan == IF TruthyStr(addr.plan) THEN addr.plan ELSE Get(addr, "plan_number", NoneStr)
  IN Only({Only({Candidate(addr, byLot, byPoint, c0) :
                   byPoint \in {IF byLot.value = NoParcel /\ TruthyNum(addr.lat)
                                    /\ TruthyNum(addr.lng)
                                 THEN ByPoint(db, up, w, addr.lat, addr.lng) ELSE NotTried}}) :
             byLot \in {IF TruthyStr(a_lot) /\ TruthyStr(a_plan)
                         THEN ByLotplan(db, up, w, a_lot, a_plan) ELSE NotTried}})

\* Step 1 of site_report and of ai_summary; db is what use_db() or
\* db_available() answered
FindParcel(req, w, db, up) ==
  IF TruthyStr(req.lot) /\ TruthyStr(req.plan)
  THEN Only({IF t.raised THEN Failed(500, "Internal Server Error", t.calls)
             ELSE IF t.value = NoParcel
                  THEN Failed(404, "No parcel found for Lot Plan", t.calls)
                  ELSE Resolved(t.value, t.calls) :
               t \in {ByLotplan(db, up, w, req.lot, req.plan)}})
  ELSE IF req.lat # None /\ req.lng # None
  THEN Only({IF t.raised THEN Failed(500, "Internal Server Error", t.calls)
             ELSE IF t.value = NoParcel THEN Failed(404, "No parcel found at", t.calls)
                  ELSE Resolved(t.value, t.calls) :
               t \in {ByPoint(db, up, w, req.lat, req.lng)}})
  ELSE IF TruthyStr(req.address)
  THEN IF db /\ ~up
       THEN Failed(500, "Internal Server Error", <<Call("local", "address", FALSE)>>)
       ELSE Only({LET c0 == <<Call(IF db THEN "local" ELSE "remote", "address", addrs # <<>>)>>
                  IN IF addrs = <<>> THEN Failed(404, "Address not found", c0)
                     ELSE FromCandidate(addrs[1], db, up, w, c0) :
                    addrs \in {IF db THEN search_addresses_db(w.addresses, req.address, 1)
                                ELSE search_addresses(w.address_features, req.address, 1)}})
  ELSE Failed(400, "Provide one of: lot+plan, address, or lat+lng", <<>>)

\* variant: the tenure is looked up for every parcel with a lot and a plan
EnrichAlways(r, w) ==
  IF r.status # 200 THEN r
  ELSE LET parcel == r.parcel_data.parcel
       IN IF TruthyStr(parcel.lot) /\ TruthyStr(parcel.plan)
          THEN LET tenure == get_tenure_for_parcel(w.tenures, parcel.lot, parcel.plan)
               IN [r EXCEPT !.calls = @ \o <<Call("remote", "tenure", TruthyStr(tenure))>>,
                            !.parcel_data.parcel.tenure = IF TruthyStr(tenure) THEN tenure ELSE @]
          ELSE r

\* Enrich with tenure if missing
Enrich(r, w) ==
  IF r.status # 200 THEN r
  ELSE LET parcel == r.parcel_data.parcel
       IN IF ~TruthyStr(parcel.tenure) /\ TruthyStr(parcel.lot) /\ TruthyStr(parcel.plan)
          THEN LET tenure == get_tenure_for_parcel(w.tenures, parcel.lot, parcel.plan)
               IN [r EXCEPT !.calls = @ \o <<Call("remote", "tenure", TruthyStr(tenure))>>,
                            !.parcel_data.parcel.tenure = IF TruthyStr(tenure) THEN tenure ELSE @]
          ELSE r

RECURSIVE SumOf(_, _)
SumOf(ring, k) == IF ring = <<>> THEN 0 ELSE Head(ring)[k] + SumOf(Tail(ring), k)

\* variant: the centroid of the geometry is preferred to the address
_get_point_centroid_first(result) ==
  LET addr == result.address
      geom == result.geometry
  IN IF geom # NoGeometry /\ geom.type = "Polygon"
     THEN LET coords == geom.coordinates[1]
          IN <<SumOf(coords, 2) \div Len(coords), SumOf(coords, 1) \div Len(coords)>>
     ELSE IF addr # EmptyDict /\ TruthyNum(addr.lat) THEN <<addr.lat, addr.lng>>
          ELSE NoPoint

\* _get_point(result): <<lat, lng>>
_get_point(result) ==
  LET addr == result.address
      geom == result.geometry
  IN IF addr # EmptyDict /\ TruthyNum(addr.lat) THEN <<addr.lat, addr.lng>>
     ELSE IF geom # NoGeometry /\ geom.type = "Polygon"
          THEN LET coords == geom.coordinates[1]
               IN <<SumOf(coords, 2) \div Len(coords), SumOf(coords, 1) \div Len(coords)>>
          ELSE NoPoint

\* Step 2 of site_report and of ai_summary
Locate(r) ==
  IF r.status # 200 THEN r
  ELSE LET point == _get_point(r.parcel_data)
       IN IF ~TruthyNum(point[1])
          THEN Failed(500, "Could not determine parcel location", r.calls)
          ELSE [r EXCEPT !.point = point]

\* use_db(): the flag is computed by the first call and kept
use_db(flag, w, up) ==
  IF flag = NoneStr THEN (IF db_available(w, up) THEN "True" ELSE "False") ELSE flag

\* variant: a lot without a plan selects the lot / plan branch
AsksDbLotAlone(req) ==
  \/ TruthyStr(req.lot)
  \/ req.lat # None /\ req.lng # None
  \/ TruthyStr(req.address)

\* whether the request reaches a branch that asks use_db()
AsksDb(req) ==
  \/ TruthyStr(req.lot) /\ TruthyStr(req.plan)
  \/ req.lat # None /\ req.lng # None
  \/ TruthyStr(req.address)

\* Step 1 of the buildability endpoint
FindParcelBuildability(req, w, up) ==
  LET db == db_available(w, up) IN
  IF TruthyStr(req.lot) /\ TruthyStr(req.plan)
  THEN ByLotplan(db, up, w, req.lot, req.plan)
  ELSE IF req.lat # None /\ req.lng # None
  THEN ByPoint(db, up, w, req.lat, req.lng)
  ELSE LET remote == search_addresses(w.address_features, req.address, 1)
           addrs == IF remote = <<>> /\ db
                    THEN search_addresses_db(w.addresses, req.address, 1) ELSE remote
           c0 == <<Call("remote", "address", remote # <<>>)>>
                   \o (IF remote = <<>> /\ db
                       THEN <<Call("local", "address", addrs # <<>>)>> ELSE <<>>)
       IN IF addrs = <<>> THEN [NotTried EXCEPT !.calls = c0]
          ELSE LET addr == addrs[1]
                   has_lotplan == TruthyStr(addr.lot) /\ TruthyStr(addr.plan)
                   byLot == IF has_lotplan THEN ByLotplan(db, up, w, addr.lot, addr.plan)
                            ELSE NotTried
                   byPoint == IF byLot.value = NoParcel /\ TruthyNum(addr.lat) /\ TruthyNum(addr.lng)
                              THEN ByPoint(db, up, w, addr.lat, addr.lng) ELSE NotTried
               IN [raised |-> FALSE,
                   value |-> IF byLot.value # NoParcel THEN byLot.value ELSE byPoint.value,
                   calls |-> c0 \o byLot.calls \o byPoint.calls]

ResolveBuildability(req, w, up) ==
  IF ~AsksDb(req) THEN Failed(400, "Provide one of: address, lot+plan, or lat+lng", <<>>)
  ELSE LET t == FindParcelBuildability(req, w, up)
       IN IF t.value = NoParcel THEN Failed(404, "Parcel not found", t.calls)
          ELSE Resolved(t.value, t.calls)

-----------------------------------------------------------------------------
(* The resolver under check: requests against one parcel, known to either, *)
(* both or neither tier.  Coordinates are small non-negative integers.     *)

Rect(x0, y0, x1, y1) ==
  [type |-> "Polygon",
   coordinates |-> << << <<x0, y0>>, <<x1, y0>>, <<x1, y1>>, <<x0, y1>>, <<x0, y0>> >> >>]

PointGeometry(lat, lng) == [type |-> "Point", coordinates |-> <<lng, lat>>]

\* a row of the parcels table
ParcelRow(lot, plan, cover_type, tenure, area_sqm, geometry) ==
  [lot |-> lot, plan_number |-> plan, lotplan |-> lot \o plan,
   parcel_type |-> "Lot Type Parcel", cover_type |-> cover_type, tenure |-> tenure,
   area_sqm |-> area_sqm, locality |-> "Nambour",
   shire_name |-> "Sunshine Coast Regional", feature_name |-> NoneStr,
   geometry |-> geometry]

\* a feature of the remote cadastre
ParcelFeature(lot, plan, cover_typ, tenure, lot_area, geometry) ==
  [properties |-> [lot |-> lot, plan |-> plan, lotplan |-> lot \o plan,
                   parcel_typ |-> "Lot Type Parcel", cover_typ |-> cover_typ,
                   tenure |-> tenure, lot_area |-> lot_area, locality |-> "Nambour",
                   shire_name |-> "Sunshine Coast Regional", feat_name |-> ""],
   geometry |-> geometry]

\* a row of the addresses table
AddressRow(lot, plan, lat, lng) ==
  [full_address |-> "1 Main Street, Nambour", locality |-> "Nambour",
   lot |-> lot, plan_number |-> plan,
   lotplan |-> IF lot = NoneStr THEN NoneStr ELSE lot \o plan,
   lat |-> lat, lng |-> lng]

\* a feature of the remote address service
AddressFeature(lot, plan, geometry) ==
  [properties |-> [address |-> "1 Main Street, Nambour", locality |-> "Nambour",
                   lot |-> lot, plan |-> plan, lotplan |-> lot \o plan],
   geometry |-> geometry]

TheLot == "1"
ThePlan == "RP100"
TheLat == 5
TheLng == 6
TheGeometry == Rect(0, 0, 10, 10)
OtherGeometry == Rect(20, 20, 30, 30)

OtherRow == ParcelRow("9", "SP900", "Base", "Freehold", 800, OtherGeometry)
BaseRow == ParcelRow(TheLot, ThePlan, "Base", NoneStr, 600, TheGeometry)
EasementRow == ParcelRow(TheLot, ThePlan, "Easement", "Freehold", 0, TheGeometry)

OtherFeature == ParcelFeature("9", "SP900", "Base", "Freehold", 800, OtherGeometry)
BaseFeature == ParcelFeature(TheLot, ThePlan, "Base", "", 600, TheGeometry)
EasementFeature == ParcelFeature(TheLot, ThePlan, "Easement", "Freehold", 0, TheGeometry)
\* a feature of the cadastre without lot, plan and tenure
UnnumberedFeature == ParcelFeature("", "", "Base", "", 600, TheGeometry)
\* the lot as a feature of the cadastre with a null geometry
UnmappedFeature == ParcelFeature(TheLot, ThePlan, "Base", "Freehold", 600, NoGeometry)

ParcelTables == {<<>>, <<OtherRow>>, <<OtherRow, BaseRow>>, <<OtherRow, EasementRow>>}

FeatureTables ==
  {<<>>, <<OtherFeature>>, <<OtherFeature, EasementFeature, BaseFeature>>,
   <<OtherFeature, UnnumberedFeature, UnmappedFeature>>}

AddressTables ==
  {<<>>,
   <<AddressRow(TheLot, ThePlan, TheLat, TheLng)>>,
   <<AddressRow(TheLot, ThePlan, None, None)>>,
   <<AddressRow(NoneStr, NoneStr, TheLat, TheLng)>>}

AddressFeatureTables ==
  {<<>>,
   <<AddressFeature(TheLot, ThePlan, PointGeometry(TheLat, TheLng))>>,
   <<AddressFeature("", "", PointGeometry(TheLat, TheLng))>>}

TenureTables ==
  {<<>>, <<[properties |-> [lot |-> TheLot, plan |-> ThePlan, tenure |-> "Leasehold"]]>>}

Worlds ==
  [parcels : ParcelTables, features : FeatureTables, addresses : AddressTables,
   address_features : AddressFeatureTables, tenures : TenureTables]

Request(lot, plan, lat, lng, address) ==
  [lot |-> lot, plan |-> plan, lat |-> lat, lng |-> lng, address |-> address]

Requests ==
  {Request(TheLot, ThePlan, None, None, NoneStr),
   Request(NoneStr, NoneStr, TheLat, TheLng, NoneStr),
   Request(NoneStr, NoneStr, None, None, "1 Main St"),
   Request(NoneStr, NoneStr, None, None, NoneStr),
   Request(TheLot, "", TheLat, None, ""),
   Request(TheLot, NoneStr, None, None, "1 main street"),
   Request(TheLot, ThePlan, TheLat, TheLng, "1 Main St")}

NoArgs == [none |-> TRUE]

InitResolve ==
  /\ pc = "idle"
  /\ args = NoArgs
  /\ ret = NoRet
  /\ world \in Worlds
  /\ db_up \in BOOLEAN
  /\ _use_db = NoneStr
  /\ calls = <<>>
  /\ ReportIdle

\* the response of a request: the resolution outcome without its trace
Response(r) ==
  [status |-> r.status, detail |-> r.detail, parcel_data |-> r.parcel_data, point |-> r.point]

\* GET /v1/site-report, up to the representative point
SiteReportResolve ==
  /\ pc = "idle"
  /\ \E req \in Requests :
    \E flag \in {IF AsksDb(req) THEN use_db(_use_db, world, db_up) ELSE _use_db} :
    \E found \in {FindParcel(req, world, flag = "True", db_up)} :
    \E enriched \in {Enrich(found, world)} :
    \E r \in {Locate(enriched)} :
       /\ args' = [endpoint |-> "site_report", request |-> req]
       /\ ret' = Response(r)
       /\ calls' = r.calls
       /\ _use_db' = flag
       /\ pc' = "done"
       /\ UNCHANGED <<world, db_up, reportVars>>

\* GET /v1/ai-summary, up to the representative point
AiSummaryResolve ==
  /\ pc = "idle"
  /\ \E req \in Requests :
    \E found \in {FindParcel(req, world, db_available(world, db_up), db_up)} :
    \E enriched \in {Enrich(found, world)} :
    \E r \in {Locate(enriched)} :
       /\ args' = [endpoint |-> "ai_summary", request |-> req]
       /\ ret' = Response(r)
       /\ calls' = r.calls
       /\ pc' = "done"
       /\ UNCHANGED <<world, db_up, _use_db, reportVars>>

\* GET /v1/buildability, up to the parcel
BuildabilityResolve ==
  /\ pc = "idle"
  /\ \E req \in Requests :
    \E r \in {ResolveBuildability(req, world, db_up)} :
       /\ args' = [endpoint |-> "buildability", request |-> req]
       /\ ret' = Response(r)
       /\ calls' = r.calls
       /\ pc' = "done"
       /\ UNCHANGED <<world, db_up, _use_db, reportVars>>

\* the local index stops answering between two requests
DbDown ==
  /\ pc = "idle"
  /\ db_up
  /\ db_up' = FALSE
  /\ UNCHANGED <<pc, args, ret, world, _use_db, calls, reportVars>>

\* the local index answers again
DbUp ==
  /\ pc = "idle"
  /\ ~db_up
  /\ db_up' = TRUE
  /\ UNCHANGED <<pc, args, ret, world, _use_db, calls, reportVars>>

\* the response is sent; the process waits for the next request
Respond ==
  /\ pc = "done"
  /\ pc' = "idle"
  /\ args' = NoArgs
  /\ ret' = NoRet
  /\ calls' = <<>>
  /\ UNCHANGED <<world, db_up, _use_db, reportVars>>

NextResolve ==
  \/ SiteReportResolve
  \/ AiSummaryResolve
  \/ BuildabilityResolve
  \/ Respond
  \/ DbDown
  \/ DbUp

SpecResolve == InitResolve /\ [][NextResolve]_vars

-----------------------------------------------------------------------------
(* The providers.  A provider response is what the remote service sends    *)
(* for one query: the features of its JSON body, or a transport error or   *)
(* a timeout.  A provider call either returns a value or raises.           *)

Resp(error, features) == [error |-> error, features |-> features]

\* try: ... return data.get("features", []) / except Exception: return []
Features(resp) == IF resp.error # "none" THEN <<>> ELSE resp.features

Return(v) == [raised |-> FALSE, value |-> v]
Raise(e) == [raised |-> TRUE, value |-> e]

\* attrs.get(k, "").strip() on each key: a null value has no strip()
NullText(attrs, keys) == \E k \in keys : k \in DOMAIN attrs /\ attrs[k] = NoneStr

\* attrs.get(k, "").strip()
Text(attrs, k) == Strip(Get(attrs, k, ""))

\* get_zone(lat, lng); NoZone stands for its None
get_zone(resp) ==
  LET features == Features(resp) IN
  IF features = <<>> THEN Return(NoZone)
  ELSE LET attrs == features[1]
           label == Get(attrs, "LABEL", "")
       IN IF NullText(attrs, {"HEADING"}) THEN Raise("AttributeError")
          ELSE LET heading == Text(attrs, "HEADING")
               IN Return([code |-> label,
                          category |-> IF heading # "" THEN heading ELSE "Unknown Category",
                          label |-> label,
                          description |-> Get(attrs, "DESCRIPT", "")])

\* None returned by get_height_restriction
NoHeight == [none |-> TRUE]

\* get_height_restriction(lat, lng); the attribute is a whole number of
\* metres or null
get_height_restriction(resp) ==
  LET features == Features(resp) IN
  IF features = <<>> THEN Return(NoHeight)
  ELSE LET attrs == features[1]
           height == Get(attrs, "HeightRestrictionMetres", None)
           comment == Get(attrs, "ComplexComment", NoneStr)
       IN Return([height_m |-> IF height # None THEN height * CmPerM ELSE None,
                  label |-> Get(attrs, "LABEL", ""),
                  comment |-> IF TruthyStr(comment) THEN comment ELSE ""])

\* OVERLAY_LAYERS, the layers the modelled overlay service holds features
\* on, in definition order; every other layer of the definition answers
\* with no features and adds no entry
OVERLAY_LAYERS ==
  <<[category |-> "Bushfire Hazard", layer_id |-> 32, name |-> "High Bushfire Hazard Area"],
    [category |-> "Flood Hazard", layer_id |-> 46, name |-> "Flooding and Inundation Area"],
    [category |-> "Flood Hazard", layer_id |-> 47, name |-> "Drainage Deficient Areas"]>>

ALL_OVERLAY_LAYER_IDS == [i \in 1..Len(OVERLAY_LAYERS) |-> OVERLAY_LAYERS[i].layer_id]

\* layers queried at once; 8 in the source, scaled to the modelled layer list
batch_size == 2

\* for feat in features: results.append(entry), for the layer at position p
LayerEntries(p, features) ==
  [j \in 1..Len(features) |->
     [layer_id |-> OVERLAY_LAYERS[p].layer_id, name |-> OVERLAY_LAYERS[p].name,
      category |-> OVERLAY_LAYERS[p].category,
      label |-> Get(features[j], "LABEL", OVERLAY_LAYERS[p].name)]]

\* for lid, features in zip(batch, batch_results): ..., the batch starting
\* after position i
RECURSIVE BatchEntries(_, _)
BatchEntries(i, batch_results) ==
  IF batch_results = <<>> THEN <<>>
  ELSE LayerEntries(i + 1, Head(batch_results)) \o BatchEntries(i + 1, Tail(batch_results))

\* str(x) of a text or of None
Str(x) == IF x = NoneStr THEN "None" ELSE x

\* f"{item['layer_id']}|{item['label']}"
DedupKey(item) == ToString(item.layer_id) \o "|" \o Str(item.label)

\* the items that are the first with their key
Deduplicated(raw) ==
  SelectSeq([i \in 1..Len(raw) |-> [item |-> raw[i], i |-> i]],
            LAMBDA e : \A j \in 1..(e.i - 1) : DedupKey(raw[j]) # DedupKey(e.item))

\* the categories in the order of their first item
RECURSIVE FirstSeen(_, _)
FirstSeen(items, seen) ==
  IF items = <<>> THEN <<>>
  ELSE LET cat == Head(items).item.category
       IN IF cat \in seen THEN FirstSeen(Tail(items), seen)
          ELSE <<cat>> \o FirstSeen(Tail(items), seen \cup {cat})

\* get_overlays_grouped, the raw list of get_overlays given
GroupOverlays(raw) ==
  LET items == Deduplicated(raw)
      cats == FirstSeen(items, {})
  IN [c \in 1..Len(cats) |->
        LET own == SelectSeq(items, LAMBDA e : e.item.category = cats[c])
        IN [category |-> cats[c],
            layers |-> [k \in 1..Len(own) |->
                          [layer_id |-> own[k].item.layer_id, name |-> own[k].item.name,
                           label |-> own[k].item.label]]]]

\* get_transport(lat, lng)
get_transport(resp) ==
  LET results == Features(resp)
      Key(r) == Str(Get(r, "HEADING", "")) \o "|" \o Str(Get(r, "LABEL", ""))
      kept == SelectSeq([i \in 1..Len(results) |-> [r |-> results[i], i |-> i]],
                        LAMBDA e : \A j \in 1..(e.i - 1) : Key(results[j]) # Key(e.r))
  IN Return([i \in 1..Len(kept) |->
               [heading |-> Get(kept[i].r, "HEADING", ""), label |-> Get(kept[i].r, "LABEL", ""),
                description |-> Get(kept[i].r, "DESCRIPT", "")]])


\* f"{n} {word}{'s' if n != 1 else ''}"
Plural(n, word) == ToString(n) \o " " \o word \o (IF n # 1 THEN "s" ELSE "")

\* ", ".join(parts) and the like
RECURSIVE Join(_, _)
Join(sep, parts) ==
  IF parts = <<>> THEN ""
  ELSE IF Len(parts) = 1 THEN parts[1]
  ELSE parts[1] \o sep \o Join(sep, Tail(parts))

\* the first feature with a diameter: attrs.get("NominalDiameter"), a whole
\* number of millimetres or null; None when there is none
RECURSIVE NearestDiameter(_)
NearestDiameter(features) ==
  IF features = <<>> THEN None
  ELSE IF TruthyNum(Get(Head(features), "NominalDiameter", None))
       THEN Head(features).NominalDiameter
       ELSE NearestDiameter(Tail(features))

Millimetres(d) == IF TruthyNum(d) THEN ToString(d) ELSE "?"

\* _process_water(water_mains, hydrants), the geometries left out
_process_water(water_mains, hydrants) ==
  LET nearest_diameter == NearestDiameter(water_mains)
      with_diameter == SelectSeq(water_mains,
                                 LAMBDA f : Get(f, "NominalDiameter", None) = nearest_diameter)
      nearest_material == IF nearest_diameter # None
                          THEN Get(Head(with_diameter), "Material", NoneStr) ELSE NoneStr
      available == Len(water_mains) > 0
  IN [available |-> available,
      mains_count |-> Len(water_mains),
      nearest_diameter_mm |-> IF TruthyNum(nearest_diameter) THEN nearest_diameter ELSE None,
      nearest_material |-> nearest_material,
      hydrants_nearby |-> Len(hydrants),
      summary |-> IF available
                  THEN Strip("Reticulated water available - " \o Millimetres(nearest_diameter)
                             \o "mm " \o (IF TruthyStr(nearest_material) THEN nearest_material ELSE "")
                             \o " main within 100m")
                  ELSE "No reticulated water - tank/bore required"]

\* _process_sewer(sewer_gravity, sewer_pressure), the geometries left out
_process_sewer(sewer_gravity, sewer_pressure) ==
  LET gravity == NearestDiameter(sewer_gravity)
      pressure == NearestDiameter(sewer_pressure)
      nearest_diameter == IF gravity # None THEN gravity ELSE pressure
      nearest_type == IF gravity # None THEN "gravity"
                      ELSE IF pressure # None THEN "pressure" ELSE NoneStr
      total_count == Len(sewer_gravity) + Len(sewer_pressure)
      available == total_count > 0
  IN [available |-> available,
      mains_count |-> total_count,
      gravity_count |-> Len(sewer_gravity),
      pressure_count |-> Len(sewer_pressure),
      nearest_diameter_mm |-> IF TruthyNum(nearest_diameter) THEN nearest_diameter ELSE None,
      nearest_type |-> nearest_type,
      summary |-> IF available
                  THEN "Reticulated sewer available - " \o Millimetres(nearest_diameter)
                       \o "mm " \o (IF TruthyStr(nearest_type) THEN nearest_type ELSE "")
                       \o " main within 100m"
                  ELSE "No reticulated sewer - on-site system required"]

\* the largest positive attrs.get("PipeDiameter_mm"), None when there is none
LargestDiameter(features) ==
  LET ds == {Get(features[i], "PipeDiameter_mm", None) : i \in 1..Len(features)} \ {None}
      positive == {d \in ds : d > 0}
  IN IF positive = {} THEN None ELSE CHOOSE d \in positive : \A e \in positive : e <= d

\* the first truthy attrs.get("Name"), None when there is none
RECURSIVE DrainageInfo(_)
DrainageInfo(waterways) ==
  IF waterways = <<>> THEN NoneStr
  ELSE IF TruthyStr(Get(Head(waterways), "Name", NoneStr)) THEN Head(waterways).Name
  ELSE DrainageInfo(Tail(waterways))

\* _process_stormwater(waterways, sw_pipes, sw_pits, sw_culverts), the
\* geometries left out
_process_stormwater(waterways, sw_pipes, sw_pits, sw_culverts) ==
  LET pipe_count == Len(sw_pipes)
      culvert_count == Len(sw_culverts)
      waterway_count == Len(waterways)
      drainage_info == DrainageInfo(waterways)
      has_network == (pipe_count + culvert_count) > 0
      parts == <<"Council stormwater network - " \o Plural(pipe_count, "pipe")>>
                 \o (IF culvert_count # 0 THEN <<Plural(culvert_count, "culvert")>> ELSE <<>>)
      network == IF has_network THEN Join(", ", parts) \o " within 200m"
                 ELSE "No council stormwater pipes within 200m"
      ww == Plural(waterway_count, "waterway") \o " within 200m"
  IN [available |-> has_network,
      nearby_waterways |-> waterway_count,
      drainage_info |-> drainage_info,
      pipe_count |-> pipe_count,
      pit_count |-> Len(sw_pits),
      culvert_count |-> culvert_count,
      largest_diameter_mm |-> LargestDiameter(sw_pipes \o sw_culverts),
      summary |-> IF waterway_count > 0
                  THEN network \o " | "
                         \o (IF TruthyStr(drainage_info)
                             THEN "Natural drainage via " \o drainage_info \o " - " \o ww
                             ELSE ww)
                  ELSE network]

\* get_infrastructure(lat, lng); resp holds one response for each of its
\* eight layer queries
get_infrastructure(resp) ==
  Return([water |-> _process_water(Features(resp.water_mains), Features(resp.hydrants)),
          sewer |-> _process_sewer(Features(resp.sewer_gravity), Features(resp.sewer_pressure)),
          stormwater |-> _process_stormwater(Features(resp.waterways), Features(resp.sw_pipes),
                                             Features(resp.sw_pits), Features(resp.sw_culverts))])


\* one day of an ArcGIS timestamp, in milliseconds
DayMs == 24 * 60 * 60 * 1000

\* _format_date(timestamp): "%d/%m/%Y", for timestamps of January 1970 read
\* in UTC
_format_date(timestamp) ==
  IF ~TruthyNum(timestamp) THEN NoneStr
  ELSE LET day == (timestamp \div DayMs) + 1
       IN (IF day < 10 THEN "0" ELSE "") \o ToString(day) \o "/01/1970"

DaTextKeys ==
  {"description", "category_desc", "decision", "progress", "assessment_level",
   "land_parcel_relationship"}

\* one dict of _process_da_features
DaRecord(attrs) ==
  [ram_id |-> Get(attrs, "ram_id", NoneStr),
   description |-> Text(attrs, "description"),
   category |-> Text(attrs, "category_desc"),
   decision |-> Text(attrs, "decision"),
   progress |-> Text(attrs, "progress"),
   assessment_level |-> Text(attrs, "assessment_level"),
   date_received |-> _format_date(Get(attrs, "d_date_rec", None)),
   date_decided |-> _format_date(Get(attrs, "d_decision_made", None)),
   land_parcel_relationship |-> Text(attrs, "land_parcel_relationship")]

\* _process_da_features(features)
_process_da_features(features) ==
  IF \E i \in 1..Len(features) : NullText(features[i], DaTextKeys)
  THEN Raise("AttributeError")
  ELSE Return(SelectSeq([i \in 1..Len(features) |-> DaRecord(features[i])],
                        LAMBDA da : TruthyStr(da.ram_id) \/ TruthyStr(da.description)))

\* _is_in_progress(da)
_is_in_progress(da) ==
  LET progress == Lower(da.progress)
      decision == Lower(da.decision)
  IN \/ ~TruthyStr(da.date_decided) /\ TruthyStr(da.date_received)
     \/ Contains(progress, "progress") \/ Contains(progress, "current")
     \/ Contains(progress, "pending")
     \/ decision = "" \/ Contains(decision, "pending") \/ Contains(decision, "current")

\* _build_summary(on_parcel_count, nearby_count, in_progress_count)
_build_summary(on_parcel_count, nearby_count, in_progress_count) ==
  IF on_parcel_count = 0 /\ nearby_count = 0
  THEN "No development applications found in area"
  ELSE Join(", ", (IF on_parcel_count > 0
                   THEN <<ToString(on_parcel_count) \o " on parcel">> ELSE <<>>)
                  \o (IF nearby_count > 0
                      THEN <<ToString(nearby_count) \o " nearby">> ELSE <<>>))
       \o (IF in_progress_count > 0
           THEN " (" \o ToString(in_progress_count) \o " in progress)" ELSE "")

\* the Development-i link of lot_plan, None without one
PortalLink(lot_plan) ==
  IF TruthyStr(lot_plan) /\ Contains(lot_plan, "/")
  THEN LET i == Find(lot_plan, "/")
           lot == SubSeq(lot_plan, 1, i - 1)
           plan == SubSeq(lot_plan, i + 1, Len(lot_plan))
       IN "https://developmenti.sunshinecoast.qld.gov.au/Home/FilterDirect?LotPlan="
            \o lot \o "/" \o Replace(Replace(plan, "RP", ""), "SP", "")
  ELSE NoneStr

\* get_da_history(lat, lng, geometry, lot_plan); resp holds one response
\* for each of its eight layer queries
get_da_history(resp, lot_plan) ==
  LET on_parcel_das ==
        _process_da_features(Features(resp.da_progress_on) \o Features(resp.da_past_on))
      on_parcel_building ==
        _process_da_features(Features(resp.building_progress_on) \o Features(resp.building_past_on))
      nearby_das ==
        _process_da_features(Features(resp.da_progress_nearby) \o Features(resp.da_past_nearby))
      nearby_building ==
        _process_da_features(Features(resp.building_progress_nearby)
                               \o Features(resp.building_past_nearby))
  IN IF on_parcel_das.raised \/ on_parcel_building.raised
        \/ nearby_das.raised \/ nearby_building.raised
     THEN Raise("AttributeError")
     ELSE
     LET on_parcel == on_parcel_das.value \o on_parcel_building.value
         on_parcel_ids == {on_parcel[i].ram_id : i \in 1..Len(on_parcel)} \ {NoneStr, ""}
         nearby == SelectSeq(nearby_das.value \o nearby_building.value,
                             LAMBDA da : da.ram_id \notin on_parcel_ids)
         on_parcel_in_progress == Len(SelectSeq(on_parcel, _is_in_progress))
         nearby_in_progress == Len(SelectSeq(nearby, _is_in_progress))
         total_in_progress == on_parcel_in_progress + nearby_in_progress
     IN Return([on_parcel |-> on_parcel,
                nearby |-> nearby,
                on_parcel_count |-> Len(on_parcel),
                nearby_count |-> Len(nearby),
                total_count |-> Len(on_parcel) + Len(nearby),
                on_parcel_in_progress |-> on_parcel_in_progress,
                nearby_in_progress |-> nearby_in_progress,
                total_in_progress |-> total_in_progress,
                portal_link |-> PortalLink(lot_plan),
                summary |-> _build_summary(Len(on_parcel), Len(nearby), total_in_progress)])


\* _parse_lotplan_for_flood(lot_plan)
_parse_lotplan_for_flood(lot_plan) ==
  IF ~TruthyStr(lot_plan) \/ ~Contains(lot_plan, "/") THEN NoneStr
  ELSE LET i == Find(lot_plan, "/")
           lot == SubSeq(lot_plan, 1, i - 1)
           plan == SubSeq(lot_plan, i + 1, Len(lot_plan))
       IN Strip(lot) \o Strip(Replace(Replace(plan, "RP", ""), "SP", ""))

\* the keys of flood_data and the attributes they are read from
FloodFields ==
  [scenario |-> "SCENARIO", max_flood_level |-> "MAX_FLOOD_FORMAT",
   min_floor_level |-> "MAX_FLOOR_FORMAT", freeboard |-> "FREEBOARD",
   velocity |-> "MAX_VEL_FORMAT", source |-> "SOURCE", notes |-> "NOTES",
   complex_note |-> "COMPLEX", address |-> "address_format", lotplan |-> "lotplan"]

\* _process_scc_flood(features); EmptyDict stands for its None
_process_scc_flood(features) ==
  IF features = <<>> THEN Return(EmptyDict)
  ELSE LET attrs == features[1]
           keys == {FloodFields[k] : k \in DOMAIN FloodFields}
       IN IF NullText(attrs, keys) THEN Raise("AttributeError")
          ELSE LET kept == {k \in DOMAIN FloodFields : Text(attrs, FloodFields[k]) # ""}
               IN Return(IF kept = {} THEN EmptyDict
                         ELSE [k \in kept |-> Text(attrs, FloodFields[k])])

\* a.get(k1) or a.get(k2) or ... or ""
RECURSIVE FirstOf(_, _)
FirstOf(attrs, keys) ==
  IF keys = <<>> THEN ""
  ELSE IF TruthyStr(Get(attrs, Head(keys), NoneStr)) THEN attrs[Head(keys)]
  ELSE FirstOf(attrs, Tail(keys))

StudyName(attrs) == Strip(FirstOf(attrs, <<"STUDY_NAME", "StudyName", "NAME", "name", "TITLE">>))

StudyFields ==
  [authority |-> <<"AUTHORITY", "Authority">>, date |-> <<"DATE", "Date">>,
   status |-> <<"STATUS", "Status">>, type |-> <<"TYPE", "Type">>]

\* the dict of one study, its empty values cleaned away
Study(attrs) ==
  LET kept == {k \in DOMAIN StudyFields : FirstOf(attrs, StudyFields[k]) # ""}
  IN [k \in kept \cup (IF StudyName(attrs) # "" THEN {"name"} ELSE {}) |->
        IF k = "name" THEN StudyName(attrs) ELSE Strip(FirstOf(attrs, StudyFields[k]))]

\* _process_qld_flood_studies, the features of the three layers concatenated
_process_qld_flood_studies(all_features) ==
  LET named == SelectSeq([i \in 1..Len(all_features) |-> [attrs |-> all_features[i], i |-> i]],
                         LAMBDA e : FirstOf(e.attrs, <<"STUDY_NAME", "StudyName", "NAME",
                                                       "name", "TITLE">>) # "")
      unique == SelectSeq(named,
                          LAMBDA e : \A j \in 1..(e.i - 1) :
                                       \/ FirstOf(all_features[j], <<"STUDY_NAME", "StudyName",
                                                                     "NAME", "name", "TITLE">>) = ""
                                       \/ StudyName(all_features[j]) # StudyName(e.attrs))
  IN [i \in 1..Min(5, Len(unique)) |-> Study(unique[i].attrs)]

\* the summary of get_flood_info
FloodSummary(flood_data, flood_studies) ==
  (IF flood_data # EmptyDict
   THEN IF "max_flood_level" \in DOMAIN flood_data /\ "min_floor_level" \in DOMAIN flood_data
        THEN "Flood affected - Floor level " \o flood_data.min_floor_level
        ELSE "Flood mapping data available - check requirements"
   ELSE IF Len(flood_studies) > 0
        THEN "No direct flood mapping - studies available in area"
        ELSE "No flood mapping or studies identified")
  \o (IF Len(flood_studies) = 0 THEN ""
      ELSE IF Len(flood_studies) = 1 THEN " (1 flood study in area)"
      ELSE " (" \o ToString(Len(flood_studies)) \o " flood studies in area)")

\* get_flood_info(lat, lng, lot_plan); resp holds the response of the
\* lotplan query and of the three study layers
get_flood_info(resp, lot_plan) ==
  LET lotplan == IF TruthyStr(lot_plan) THEN _parse_lotplan_for_flood(lot_plan) ELSE NoneStr
      scc_flood_features == IF TruthyStr(lotplan) THEN Features(resp.scc) ELSE <<>>
      flood == _process_scc_flood(scc_flood_features)
      flood_studies == _process_qld_flood_studies(
                         Features(resp.layer_0) \o Features(resp.layer_1) \o Features(resp.layer_2))
  IN IF flood.raised THEN flood
     ELSE Return([has_flood_data |-> flood.value # EmptyDict,
                  flood_data |-> flood.value,
                  flood_studies |-> flood_studies,
                  has_flood_studies |-> Len(flood_studies) > 0,
                  summary |-> FloodSummary(flood.value, flood_studies),
                  lotplan_searched |-> lotplan])


EasementTextKeys == {"LOTPLAN", "GAZETTEDAREA", "NAME", "PURPOSE1", "INFAVOUR1", "STATUS"}
CovenantTextKeys == {"LOTPLAN", "NAME", "PURPOSE1", "INFAVOUR1", "STATUS"}

\* _process_easements(easement_features), the geometries left out
_process_easements(easement_features) ==
  IF \E i \in 1..Len(easement_features) : NullText(easement_features[i], EasementTextKeys)
  THEN Raise("AttributeError")
  ELSE Return(SelectSeq([i \in 1..Len(easement_features) |->
                           LET attrs == easement_features[i]
                           IN [lotplan |-> Text(attrs, "LOTPLAN"),
                               area |-> Text(attrs, "GAZETTEDAREA"),
                               name |-> Text(attrs, "NAME"),
                               purpose |-> Text(attrs, "PURPOSE1"),
                               in_favour |-> Text(attrs, "INFAVOUR1"),
                               status |-> Text(attrs, "STATUS")]],
                        LAMBDA e : e.name # "" \/ e.purpose # ""))

\* _process_covenants(covenant_features)
_process_covenants(covenant_features) ==
  IF \E i \in 1..Len(covenant_features) : NullText(covenant_features[i], CovenantTextKeys)
  THEN Raise("AttributeError")
  ELSE Return(SelectSeq([i \in 1..Len(covenant_features) |->
                           LET attrs == covenant_features[i]
                           IN [lotplan |-> Text(attrs, "LOTPLAN"),
                               name |-> Text(attrs, "NAME"),
                               purpose |-> Text(attrs, "PURPOSE1"),
                               in_favour |-> Text(attrs, "INFAVOUR1"),
                               status |-> Text(attrs, "STATUS")]],
                        LAMBDA c : c.name # "" \/ c.purpose # ""))

\* _process_koala_habitat(koala_results)
_process_koala_habitat(priority_areas, habitat_areas, core_habitat_areas) ==
  LET has_priority == Len(priority_areas) > 0
      has_habitat == Len(habitat_areas) > 0
      has_core_habitat == Len(core_habitat_areas) > 0
  IN [has_priority |-> has_priority, has_habitat |-> has_habitat,
      has_core_habitat |-> has_core_habitat,
      priority_count |-> Len(priority_areas), habitat_count |-> Len(habitat_areas),
      core_habitat_count |-> Len(core_habitat_areas),
      status |-> IF has_core_habitat THEN "Core Koala Habitat"
                 ELSE IF has_habitat THEN "Koala Habitat Area"
                 ELSE IF has_priority THEN "Koala Priority Area" ELSE NoneStr,
      significance |-> IF has_core_habitat THEN "high"
                       ELSE IF has_habitat \/ has_priority THEN "medium" ELSE "none"]

\* _process_esa_areas(esa_results)
_process_esa_areas(category_a, category_b) ==
  LET has_category_a == Len(category_a) > 0
      has_category_b == Len(category_b) > 0
  IN [has_category_a |-> has_category_a, has_category_b |-> has_category_b,
      category_a_count |-> Len(category_a), category_b_count |-> Len(category_b),
      category |-> IF has_category_a THEN "Category A"
                   ELSE IF has_category_b THEN "Category B" ELSE NoneStr,
      significance |-> IF has_category_a THEN "high"
                       ELSE IF has_category_b THEN "medium" ELSE "none",
      status |-> IF has_category_a THEN "Environmentally Sensitive Area (Category A)"
                 ELSE IF has_category_b THEN "Environmentally Sensitive Area (Category B)"
                 ELSE NoneStr]

\* f"{n} easement{'s' if n != 1 else ''}" and the other items of the summary
ConstraintItems(easements, covenants, koala_info, esa_info) ==
  (IF easements # <<>> THEN <<Plural(Len(easements), "easement")>> ELSE <<>>)
  \o (IF covenants # <<>> THEN <<Plural(Len(covenants), "covenant")>> ELSE <<>>)
  \o (IF TruthyStr(koala_info.status) THEN <<koala_info.status>> ELSE <<>>)
  \o (IF TruthyStr(esa_info.status) THEN <<esa_info.status>> ELSE <<>>)

\* get_constraints(lat, lng, geometry); resp holds one response for each of
\* its seven layer queries.  has_constraints is the value of the Python
\* "or" chain: True, a status text or None, "True" standing for True
get_constraints(resp) ==
  LET easements == _process_easements(Features(resp.easements))
      covenants == _process_covenants(Features(resp.covenants))
      koala_info == _process_koala_habitat(Features(resp.priority), Features(resp.habitat),
                                           Features(resp.core_habitat))
      esa_info == _process_esa_areas(Features(resp.category_a), Features(resp.category_b))
  IN IF easements.raised THEN easements
     ELSE IF covenants.raised THEN covenants
     ELSE LET constraint_items ==
                ConstraintItems(easements.value, covenants.value, koala_info, esa_info)
          IN Return([easements |-> easements.value,
                     covenants |-> covenants.value,
                     koala |-> koala_info,
                     esa |-> esa_info,
                     easements_count |-> Len(easements.value),
                     covenants_count |-> Len(covenants.value),
                     has_constraints |->
                       IF Len(easements.value) > 0 \/ Len(covenants.value) > 0 THEN "True"
                       ELSE IF TruthyStr(koala_info.status) THEN koala_info.status
                       ELSE esa_info.status,
                     summary |-> IF constraint_items # <<>>
                                 THEN Join(", ", constraint_items)
                                 ELSE "No major site constraints identified"])


-----------------------------------------------------------------------------
(* The site analysis: precedent, strengths, risks and the narrative *)

\* the classification of one application by its decision text
DecisionClass(da) ==
  LET decision == Lower(IF TruthyStr(Get(da, "decision", NoneStr)) THEN da.decision ELSE "")
  IN IF decision # "" /\ Contains(decision, "approved") THEN "approved"
     ELSE IF decision # "" /\ Contains(decision, "refused") THEN "refused"
     ELSE IF decision # "" /\ Contains(decision, "lapsed") THEN "lapsed"
     ELSE "in_progress"

CountClass(all_das, class) == Len(SelectSeq(all_das, LAMBDA da : DecisionClass(da) = class))

\* the categories of the applications in the order they are first seen,
\* each with its count
RECURSIVE CategoryCounts(_, _, _)
CategoryCounts(all_das, i, seen) ==
  IF i > Len(all_das) THEN <<>>
  ELSE LET category == Get(all_das[i], "category", "Other")
       IN IF category \in seen THEN CategoryCounts(all_das, i + 1, seen)
          ELSE <<[category |-> category,
                  count |-> Len(SelectSeq(all_das,
                                          LAMBDA da : Get(da, "category", "Other") = category))]>>
               \o CategoryCounts(all_das, i + 1, seen \cup {category})

\* sorted(categories.items(), key=lambda x: -x[1]): a stable sort
RECURSIVE SortedByCount(_)
SortedByCount(pairs) ==
  IF pairs = <<>> THEN <<>>
  ELSE LET top == CHOOSE i \in 1..Len(pairs) :
                    /\ \A j \in 1..Len(pairs) : pairs[j].count <= pairs[i].count
                    /\ \A j \in 1..(i - 1) : pairs[j].count < pairs[i].count
       IN <<pairs[top]>>
            \o SortedByCount(SubSeq(pairs, 1, top - 1) \o SubSeq(pairs, top + 1, Len(pairs)))

\* variant: twice as many approvals as refusals are enough for a positive outlook
OutlookAtLeastTwice(total, approved, refused) ==
  IF total = 0 THEN "neutral"
  ELSE IF refused = 0 /\ approved > 0 THEN "positive"
  ELSE IF approved >= refused * 2 THEN "positive"
  ELSE IF refused > approved THEN "negative"
  ELSE "neutral"

\* the outlook of the if / elif chain
Outlook(total, approved, refused) ==
  IF total = 0 THEN "neutral"
  ELSE IF refused = 0 /\ approved > 0 THEN "positive"
  ELSE IF approved > refused * 2 THEN "positive"
  ELSE IF refused > approved THEN "negative"
  ELSE "neutral"

\* _analyze_da_precedent(da_history)
_analyze_da_precedent(da_history) ==
  LET on_parcel == Get(da_history, "on_parcel", <<>>)
      nearby == Get(da_history, "nearby", <<>>)
      all_das == on_parcel \o nearby
      approved == CountClass(all_das, "approved")
      refused == CountClass(all_das, "refused")
      in_progress == CountClass(all_das, "in_progress")
      lapsed == CountClass(all_das, "lapsed")
      total == approved + refused + lapsed + in_progress
      sorted == SortedByCount(CategoryCounts(all_das, 1, {}))
      outlook == Outlook(total, approved, refused)
      assessment ==
        IF total = 0 THEN "No precedent data available in area"
        ELSE IF refused = 0 /\ approved > 0
             THEN "Strong approval trend - all applications in the area have been approved"
        ELSE IF approved > refused * 2
             THEN "Positive approval trend - majority of applications approved"
        ELSE IF refused > approved THEN "Challenging area - more refusals than approvals"
        ELSE "Mixed results - assess carefully against planning scheme"
  IN [approved_count |-> approved, refused_count |-> refused,
      in_progress_count |-> in_progress, lapsed_count |-> lapsed, total_count |-> total,
      on_parcel_count |-> Len(on_parcel), nearby_count |-> Len(nearby),
      top_categories |-> SubSeq(sorted, 1, Min(5, Len(sorted))),
      assessment |-> assessment, outlook |-> outlook]

\* sum(len(g.get("layers", [])) for g in overlays if keep(g))
RECURSIVE LayerCount(_, _)
LayerCount(overlays, skipped) ==
  IF overlays = <<>> THEN 0
  ELSE (IF Lower(Head(overlays).category) \in skipped THEN 0 ELSE Len(Head(overlays).layers))
       + LayerCount(Tail(overlays), skipped)

\* d.get(k1, {}).get(k2, default) of a dict that may be None
Get2(d, k1, k2, default) == Get(Get(d, k1, EmptyDict), k2, default)

\* _identify_strengths; EmptyDict stands for a None or empty argument
_identify_strengths(overlays, flood_info, constraints, infrastructure, buildability, precedent) ==
  LET water_ok == Get2(infrastructure, "water", "available", FALSE)
      sewer_ok == Get2(infrastructure, "sewer", "available", FALSE)
      sw_ok == Get2(infrastructure, "stormwater", "available", FALSE)
      max_lots == Get2(buildability, "subdivision", "max_new_lots", 0)
      max_dw == Get2(buildability, "buildable_envelope", "max_dwellings", 0)
  IN (IF water_ok /\ sewer_ok THEN <<"Full reticulated water and sewer services available">>
      ELSE IF water_ok THEN <<"Reticulated water supply available">>
      ELSE IF sewer_ok THEN <<"Reticulated sewer available">> ELSE <<>>)
     \o (IF sw_ok THEN <<"Council stormwater network available nearby">> ELSE <<>>)
     \o (IF flood_info # EmptyDict /\ ~Get(flood_info, "has_flood_data", FALSE)
         THEN <<"No direct flood mapping on parcel">> ELSE <<>>)
     \o (IF LayerCount(overlays, {"height of buildings and structures"}) = 0
         THEN <<"No significant planning overlays">> ELSE <<>>)
     \o (IF constraints # EmptyDict /\ ~TruthyStr(Get(constraints, "has_constraints", NoneStr))
         THEN <<"No easements, covenants, or environmental constraints">> ELSE <<>>)
     \o (IF buildability # EmptyDict /\ Get2(buildability, "subdivision", "can_subdivide", FALSE)
            /\ max_lots > 1
         THEN <<"Subdivision potential - up to " \o ToString(max_lots) \o " lots">> ELSE <<>>)
     \o (IF buildability # EmptyDict /\ max_dw > 1
         THEN <<"Multi-dwelling potential - up to " \o ToString(max_dw) \o " units">> ELSE <<>>)
     \o (IF precedent.outlook = "positive"
         THEN <<"Strong approval precedent - " \o ToString(precedent.approved_count)
                 \o " approvals in area">>
         ELSE <<>>)
     \o (IF buildability # EmptyDict /\ Get2(buildability, "lot_compliance", "compliant", TRUE)
         THEN <<"Lot size compliant with zone requirements">> ELSE <<>>)


\* the risk one overlay group adds, <<>> when its category adds none
GroupRisk(group) ==
  LET cat == Lower(IF TruthyStr(group.category) THEN group.category ELSE "")
  IN IF Contains(cat, "bushfire") THEN <<"Bushfire hazard area - BAL assessment required">>
     ELSE IF Contains(cat, "flood")
          THEN <<"Flood overlay present - flood assessment may be required">>
     ELSE IF Contains(cat, "heritage") \/ Contains(cat, "character")
          THEN <<"Heritage/character area - design controls apply">>
     ELSE IF Contains(cat, "landslide")
          THEN <<"Landslide hazard - geotechnical assessment required">>
     ELSE IF Contains(cat, "steep") \/ Contains(cat, "slope")
          THEN <<"Steep land - additional earthworks and retaining likely">>
     ELSE IF Contains(cat, "biodiversity") \/ Contains(cat, "waterway") \/ Contains(cat, "wetland")
          THEN <<"Biodiversity/waterway overlay - ecological assessment likely required">>
     ELSE IF Contains(cat, "coastal")
          THEN <<"Coastal protection area - additional requirements apply">>
     ELSE IF Contains(cat, "acid")
          THEN <<"Acid sulfate soils - soil investigation may be required">>
     ELSE <<>>

RECURSIVE OverlayRisks(_)
OverlayRisks(overlays) ==
  IF overlays = <<>> THEN <<>> ELSE GroupRisk(Head(overlays)) \o OverlayRisks(Tail(overlays))

\* _identify_risks; EmptyDict stands for a None or empty argument
_identify_risks(overlays, flood_info, constraints, infrastructure, buildability, precedent) ==
  LET fd == Get(flood_info, "flood_data", EmptyDict)
      easements_count == Get(constraints, "easements_count", 0)
      covenants_count == Get(constraints, "covenants_count", 0)
      koala_status == Get2(constraints, "koala", "status", NoneStr)
      esa_status == Get2(constraints, "esa", "status", NoneStr)
      issues == Get2(buildability, "lot_compliance", "issues", <<>>)
  IN OverlayRisks(overlays)
     \o (IF flood_info # EmptyDict /\ Get(flood_info, "has_flood_data", FALSE)
         THEN IF TruthyStr(Get(fd, "min_floor_level", NoneStr))
              THEN <<"Flood affected - minimum floor level " \o fd.min_floor_level>>
              ELSE <<"Flood mapping data on parcel - check requirements">>
         ELSE <<>>)
     \o (IF constraints # EmptyDict /\ easements_count > 0
         THEN <<ToString(easements_count)
                 \o " easement(s) on parcel - may restrict building location">>
         ELSE <<>>)
     \o (IF constraints # EmptyDict /\ covenants_count > 0
         THEN <<ToString(covenants_count) \o " covenant(s) on parcel - may restrict development">>
         ELSE <<>>)
     \o (IF constraints # EmptyDict /\ TruthyStr(koala_status)
         THEN <<"Koala habitat: " \o koala_status>> ELSE <<>>)
     \o (IF constraints # EmptyDict /\ TruthyStr(esa_status)
         THEN <<"Environmental: " \o esa_status>> ELSE <<>>)
     \o (IF infrastructure # EmptyDict /\ ~Get2(infrastructure, "water", "available", FALSE)
         THEN <<"No reticulated water - tank/bore required">> ELSE <<>>)
     \o (IF infrastructure # EmptyDict /\ ~Get2(infrastructure, "sewer", "available", FALSE)
         THEN <<"No reticulated sewer - on-site system required">> ELSE <<>>)
     \o (IF buildability # EmptyDict
         THEN SelectSeq(issues, LAMBDA issue : Contains(Lower(issue), "lot is")) ELSE <<>>)
     \o (IF precedent.outlook = "negative"
         THEN <<"Challenging approval area - " \o ToString(precedent.refused_count)
                 \o " refusals vs " \o ToString(precedent.approved_count) \o " approvals">>
         ELSE <<>>)

\* f"{n:,}" of a whole number below a million
Thousands(n) ==
  IF n < 1000 THEN ToString(n)
  ELSE LET low == n % 1000
       IN ToString(n \div 1000) \o ","
            \o (IF low < 10 THEN "00" ELSE IF low < 100 THEN "0" ELSE "") \o ToString(low)

\* str() of a float of metres, kept in centimetres
Metres(cm) ==
  LET frac == cm % CmPerM
  IN ToString(cm \div CmPerM) \o "."
       \o (IF frac % 10 = 0 THEN ToString(frac \div 10)
           ELSE (IF frac < 10 THEN "0" ELSE "") \o ToString(frac))

\* the score label and colour
ScoreLabel(score) ==
  IF score >= 80 THEN <<"Low Constraints", "#27AE60">>
  ELSE IF score >= 60 THEN <<"Moderate Constraints", "#F39C12">>
  ELSE IF score >= 40 THEN <<"Significant Constraints", "#E67E22">>
  ELSE <<"Highly Constrained", "#E74C3C">>

\* the sentences of the narrative, in order
SummaryParts(site_info, zone_code, da_count, strengths, risks, rules, precedent) ==
  LET area == site_info.area_sqm
      area_str == IF TruthyNum(area) THEN Thousands(area) ELSE "unknown-size"
      max_height == Get(rules, "max_height_m", None)
      site_cover == Get(rules, "max_site_cover_pct", None)
      max_storeys == Get(rules, "max_storeys", None)
      dev_pot_parts ==
        (IF TruthyNum(max_height)
         THEN <<"maximum building height is " \o Metres(max_height) \o "m">> ELSE <<>>)
        \o (IF TruthyNum(site_cover) THEN <<ToString(site_cover) \o "% site cover">> ELSE <<>>)
        \o (IF TruthyNum(max_storeys)
            THEN <<"up to " \o ToString(max_storeys) \o " storeys">> ELSE <<>>)
  IN <<"This " \o area_str \o "m2 " \o Str(zone_code) \o " lot "
        \o (IF TruthyStr(site_info.address) THEN "at " \o site_info.address
            ELSE "(" \o site_info.lot_plan \o ")")
        \o " has " \o Plural(da_count, "development application") \o " on record.">>
     \o (IF strengths # <<>>
         THEN <<"Key strengths: " \o Join("; ", SubSeq(strengths, 1, Min(3, Len(strengths))))
                 \o ".">>
         ELSE <<>>)
     \o (IF risks # <<>>
         THEN <<"Key risks: " \o Join("; ", SubSeq(risks, 1, Min(3, Len(risks)))) \o ".">>
         ELSE <<>>)
     \o (IF dev_pot_parts # <<>>
         THEN <<"Development potential: Based on " \o Str(zone_code) \o " zoning, "
                 \o Join(", ", dev_pot_parts) \o ".">>
         ELSE <<>>)
     \o (IF precedent.total_count > 0
         THEN <<"Precedent: " \o Plural(precedent.approved_count, "approval") \o " and "
                 \o Plural(precedent.refused_count, "refusal")
                 \o " in the surrounding area - " \o Lower(precedent.assessment) \o ".">>
         ELSE <<>>)


\* the dict generate_ai_summary returns, its parts computed
Analysis(site_info, zone_code, zone_category, overlays, buildability, infrastructure, da_history, flood_info, constraints, precedent, scored, strengths, risks) ==
  LET da_count == Get(da_history, "on_parcel_count", 0)
      rules == Get(buildability, "rules", EmptyDict)
      max_gfa == Get2(buildability, "buildable_envelope", "max_gfa_sqm", None)
      label == ScoreLabel(scored.score)
  IN [score |-> scored.score,
      score_label |-> label[1],
      score_color |-> label[2],
      score_deductions |-> scored.deductions,
      summary |-> Join(" ", SummaryParts(site_info, zone_code, da_count, strengths, risks,
                                         rules, precedent)),
      strengths |-> strengths,
      risks |-> risks,
      development_potential |->
        [zone_code |-> zone_code,
         zone_category |-> zone_category,
         max_height_m |-> Get(rules, "max_height_m", None),
         max_storeys |-> Get(rules, "max_storeys", None),
         max_site_cover_pct |-> Get(rules, "max_site_cover_pct", None),
         max_gfa_sqm |-> IF TruthyNum(max_gfa) THEN max_gfa ELSE None,
         max_dwellings |-> Get2(buildability, "buildable_envelope", "max_dwellings", None),
         can_subdivide |-> Get2(buildability, "subdivision", "can_subdivide", FALSE),
         max_new_lots |-> Get2(buildability, "subdivision", "max_new_lots", 0)],
      precedent_analysis |-> precedent,
      infrastructure_summary |->
        IF infrastructure = EmptyDict THEN EmptyDict
        ELSE [s \in {"water", "sewer", "stormwater"} |->
                [available |-> Get2(infrastructure, s, "available", FALSE),
                 detail |-> Get2(infrastructure, s, "summary", "")]],
      quick_facts |->
        [area_sqm |-> site_info.area_sqm,
         zone |-> zone_code,
         flood_risk |-> IF Get(flood_info, "has_flood_data", FALSE) THEN "Yes" ELSE "No",
         da_count |-> da_count,
         nearby_da_count |-> Get(da_history, "nearby_count", 0),
         constraints_score |-> scored.score,
         easements |-> Get(constraints, "easements_count", 0),
         overlay_count |-> LayerCount(overlays, {})]]

\* generate_ai_summary; the zone links and colours, the external links and
\* the use lists are left out.  NoZone and EmptyDict stand for None
generate_ai_summary(site_info, zone, overlays, buildability, infrastructure, da_history, flood_info, constraints) ==
  LET zone_code == IF zone # NoZone THEN Get(zone, "code", "Unknown Zone") ELSE "Unknown Zone"
      zone_category == IF zone # NoZone THEN Get(zone, "category", "") ELSE ""
  IN Only({Only({Analysis(site_info, zone_code, zone_category, overlays, buildability,
                          infrastructure, da_history, flood_info, constraints, precedent,
                          scored, strengths, risks) :
                   strengths \in {_identify_strengths(overlays, flood_info, constraints,
                                                      infrastructure, buildability, precedent)},
                   risks \in {_identify_risks(overlays, flood_info, constraints,
                                              infrastructure, buildability, precedent)}}) :
             precedent \in {_analyze_da_precedent(da_history)},
             scored \in {calculate_constraints_score(overlays, flood_info, constraints,
                                                     infrastructure, buildability)}})

\* the keys of CATEGORY_LAYERS, in order
CATEGORY_LAYERS ==
  <<"bushfire", "biodiversity", "flood", "height", "heritage", "landslide", "steep_land",
    "coastal", "infrastructure", "scenic", "water", "acid_sulfate">>

\* build_map_urls: the overlay maps it adds, each URL stood for by its key
build_map_urls(overlays) ==
  LET overlay_categories ==
        {Replace(Replace(Lower(overlays[i].category), " ", "_"), ",", "") :
           i \in 1..Len(overlays)}
  IN [overlay_wms_urls |->
        SelectSeq(CATEGORY_LAYERS,
                  LAMBDA key : \E oc \in overlay_categories :
                                 Contains(oc, key) \/ Contains(key, oc))]

\* f"{parcel.get('lot', '')}/{parcel.get('plan', '')}" if lot and plan else None
LotPlan(parcel) ==
  IF TruthyStr(parcel.lot) /\ TruthyStr(parcel.plan)
  THEN parcel.lot \o "/" \o parcel.plan ELSE NoneStr

\* Step 4 of site_report
SiteInfo(parcel_data, point) ==
  LET parcel == parcel_data.parcel
      addr_data == parcel_data.address
  IN [address |-> IF addr_data # EmptyDict THEN Get(addr_data, "address", "") ELSE "",
      lot_plan |-> Str(parcel.lot) \o "/" \o Str(parcel.plan),
      lotplan |-> parcel.lotplan,
      area_sqm |-> parcel.area_sqm,
      tenure |-> parcel.tenure,
      locality |-> parcel.locality,
      shire_name |-> parcel.shire_name,
      parcel_type |-> parcel.parcel_type,
      cover_type |-> parcel.cover_type,
      centroid |-> [lat |-> point[1], lng |-> point[2]]]

\* Step 5 of ai_summary
SiteInfoAiSummary(parcel_data, point) ==
  LET parcel == parcel_data.parcel
      addr_data == parcel_data.address
  IN [address |-> IF addr_data # EmptyDict THEN Get(addr_data, "address", "") ELSE "",
      lot_plan |-> IF TruthyStr(LotPlan(parcel)) THEN LotPlan(parcel) ELSE "",
      area_sqm |-> parcel.area_sqm,
      tenure |-> parcel.tenure,
      locality |-> parcel.locality,
      centroid |-> [lat |-> point[1], lng |-> point[2]]]

\* the height the overlay sets: height_data["height_m"] when it is truthy
HeightOverride(height_data) ==
  IF height_data # NoHeight /\ TruthyNum(height_data.height_m)
  THEN height_data.height_m ELSE None

\* get_zone_rules(zone_data["code"]) raises on a None code: None has no lower()
RulesRaise(zone_data) == zone_data # NoZone /\ zone_data.code = NoneStr

\* calculate_buildability(...) if zone_data else None; EmptyDict stands for
\* the None
Buildability(parcel, zone_data, overlays, height_data) ==
  IF zone_data # NoZone
  THEN calculate_buildability(parcel, zone_data, get_zone_rules(zone_data.code), overlays,
                              HeightOverride(height_data))
  ELSE EmptyDict


-----------------------------------------------------------------------------
(* The fan-out of site_report and of ai_summary.  asyncio.gather runs one  *)
(* task for each provider, the tasks finish in any order, and the handler  *)
(* goes on when all have returned, or fails when one has raised.           *)

\* the providers in the order they are handed to asyncio.gather
SiteReportTasks ==
  <<"zone", "overlays", "height", "transport", "infrastructure", "da_history", "flood_info",
    "constraints">>

AiSummaryTasks ==
  <<"zone", "overlays", "height", "infrastructure", "da_history", "flood_info", "constraints">>

TaskList(endpoint) == IF endpoint = "site_report" THEN SiteReportTasks ELSE AiSummaryTasks

\* the position of a provider among the results the handler unpacks
Position(endpoint, category) ==
  CHOOSE i \in 1..Len(TaskList(endpoint)) : TaskList(endpoint)[i] = category

\* a result not yet handed back
Pending == [pending |-> TRUE]

\* a result, with the task it is the result of
Result(of, value) == [of |-> of, value |-> value]

\* variant: results are kept in the order the tasks finish
GatherStoreInCompletionOrder(results, i, r) ==
  LET free == CHOOSE j \in DOMAIN results :
                results[j] = Pending /\ \A k \in 1..(j - 1) : results[k] # Pending
  IN [results EXCEPT ![free] = r]

\* asyncio.gather keeps each result at the position of its awaitable
GatherStore(results, i, r) == [results EXCEPT ![i] = r]

\* variant: the handler goes on as soon as one task has returned
AnyDone(states) == \E i \in DOMAIN states : states[i] = "done"

\* asyncio.gather hands the results back when every task has returned
AllDone(states) == \A i \in DOMAIN states : states[i] = "done"

\* the batch of layer queries starting after position start, the entries
\* of the earlier batches kept
StartBatch(start, entries) ==
  [start |-> start,
   results |-> [k \in 1..Min(batch_size, Len(ALL_OVERLAY_LAYER_IDS) - start) |-> Pending],
   entries |-> entries]

BatchDone(b) == \A k \in DOMAIN b.results : b.results[k] # Pending

LastBatch(b) == b.start + batch_size >= Len(ALL_OVERLAY_LAYER_IDS)

\* results.append(entry) for the batch that has returned
WithBatchEntries(b) ==
  b.entries \o BatchEntries(b.start, [k \in DOMAIN b.results |-> b.results[k].value])

\* what the provider of a category returns or raises; the overlay provider
\* given the entries its batches have collected
Outcome(category, a, entries) ==
  LET resp == a.responses[category]
      lot_plan == LotPlan(a.parcel_data.parcel)
  IN CASE category = "zone" -> get_zone(resp)
       [] category = "overlays" -> Return(GroupOverlays(entries))
       [] category = "height" -> get_height_restriction(resp)
       [] category = "transport" -> get_transport(resp)
       [] category = "infrastructure" -> get_infrastructure(resp)
       [] category = "da_history" -> get_da_history(resp, lot_plan)
       [] category = "flood_info" -> get_flood_info(resp, lot_plan)
       [] category = "constraints" -> get_constraints(resp)

\* the response of a request that ended with an unhandled exception
InternalError == [status |-> 500, detail |-> "Internal Server Error"]

\* Steps 4 to 8 of site_report, the results of the providers given
SiteReport(a, zone_data, overlays, height_data, transport, infrastructure, da_history, flood_info, constraints) ==
  IF RulesRaise(zone_data) THEN InternalError
  ELSE Only({[status |-> 200,
              site_info |-> site_info,
              zone |-> zone_data,
              overlays |-> overlays,
              height |-> height_data,
              transport |-> transport,
              buildability |-> buildability,
              infrastructure |-> infrastructure,
              da_history |-> da_history,
              flood_info |-> flood_info,
              constraints |-> constraints,
              geometry |-> a.parcel_data.geometry,
              maps |-> build_map_urls(overlays),
              ai_summary |-> generate_ai_summary(site_info, zone_data, overlays, buildability,
                                                 infrastructure, da_history, flood_info,
                                                 constraints),
              _source |-> "scc_arcgis"] :
               site_info \in {SiteInfo(a.parcel_data, a.point)},
               buildability \in {Buildability(a.parcel_data.parcel, zone_data, overlays,
                                              height_data)}})

\* Steps 4 to 6 of ai_summary, the results of the providers given
AiSummary(a, zone_data, overlays, height_data, infrastructure, da_history, flood_info, constraints_data) ==
  IF RulesRaise(zone_data) THEN InternalError
  ELSE Only({[status |-> 200,
              ai_summary |-> generate_ai_summary(site_info, zone_data, overlays, buildability,
                                                 infrastructure, da_history, flood_info,
                                                 constraints_data)] :
               site_info \in {SiteInfoAiSummary(a.parcel_data, a.point)},
               buildability \in {Buildability(a.parcel_data.parcel, zone_data, overlays,
                                              height_data)}})

-----------------------------------------------------------------------------
(* The requests under check: a located parcel and what every remote        *)
(* service answers for it.  One provider at a time departs from the        *)
(* normal answers: no features, a transport error or a timeout on some or  *)
(* all of its queries, or a feature with a null attribute.                 *)

Ok(features) == Resp("none", features)

ErrorKinds == {"transport", "timeout"}

\* every query of a provider that issues the queries named in keys fails
AllFail(keys, kind) == [k \in keys |-> Resp(kind, <<>>)]

\* every query of such a provider finds nothing
AllEmpty(keys) == [k \in keys |-> Ok(<<>>)]

ZoneFeature(label, heading) ==
  [LABEL |-> label, HEADING |-> heading, DESCRIPT |-> "Sunshine Coast Planning Scheme 2014"]

NormalZone == Ok(<<ZoneFeature("Low Density Residential Zone", "Residential Zones Category ")>>)

ZoneMalformed ==
  {Ok(<<ZoneFeature("Low Density Residential Zone", NoneStr)>>),
   Ok(<<ZoneFeature(NoneStr, "Residential Zones Category")>>)}

\* no zone at the point, and a zone the rules table does not know
ZoneUnavailable == {Ok(<<>>), Ok(<<ZoneFeature("Township Zone", "Zones Category")>>)}

ZoneDepartures == ZoneUnavailable \cup ZoneMalformed

\* one response for each layer of ALL_OVERLAY_LAYER_IDS
NormalOverlays ==
  <<Ok(<<[LABEL |-> "High Bushfire Hazard Area"]>>),
    Ok(<<[LABEL |-> "Flooding and Inundation Area"], [LABEL |-> "Flooding and Inundation Area"]>>),
    Ok(<<[OBJECTID |-> 7]>>)>>

OverlayMalformed == {[NormalOverlays EXCEPT ![2] = Ok(<<[LABEL |-> NoneStr]>>)]}

OverlayDepartures ==
  {[p \in 1..Len(ALL_OVERLAY_LAYER_IDS) |-> Ok(<<>>)],
   [NormalOverlays EXCEPT ![1] = Resp("timeout", <<>>)]} \cup OverlayMalformed

HeightFeature(metres) ==
  [HeightRestrictionMetres |-> metres, LABEL |-> "12 metres", ComplexComment |-> NoneStr]

NormalHeight == Ok(<<HeightFeature(12)>>)

HeightMalformed == {Ok(<<HeightFeature(None)>>)}

HeightDepartures == {Ok(<<>>)} \cup HeightMalformed

Road == [HEADING |-> "Road Hierarchy", LABEL |-> "Local Street", DESCRIPT |-> "Local Street"]

NormalTransport == Ok(<<Road, Road, [Road EXCEPT !.LABEL = "Collector Street"]>>)

TransportMalformed == {Ok(<<[Road EXCEPT !.HEADING = NoneStr]>>)}

TransportDepartures == {Ok(<<>>)} \cup TransportMalformed

InfrastructureQueries ==
  {"water_mains", "hydrants", "sewer_gravity", "sewer_pressure", "waterways", "sw_pipes",
   "sw_pits", "sw_culverts"}

NormalInfrastructure ==
  [AllEmpty(InfrastructureQueries) EXCEPT
     !.water_mains = Ok(<<[NominalDiameter |-> 100, Material |-> "PVC"]>>),
     !.hydrants = Ok(<<[OBJECTID |-> 1]>>),
     !.sewer_gravity = Ok(<<[NominalDiameter |-> None], [NominalDiameter |-> 150]>>),
     !.waterways = Ok(<<[Name |-> "Petrie Creek"]>>),
     !.sw_pipes = Ok(<<[PipeDiameter_mm |-> 375], [PipeDiameter_mm |-> 450]>>)]

InfrastructureMalformed ==
  {[NormalInfrastructure EXCEPT !.water_mains = Ok(<<[NominalDiameter |-> None,
                                                       Material |-> NoneStr]>>)]}

InfrastructureDepartures ==
  {AllEmpty(InfrastructureQueries),
   [NormalInfrastructure EXCEPT !.sewer_gravity = Resp("transport", <<>>)]}
  \cup InfrastructureMalformed

DaQueries ==
  {"da_progress_on", "da_past_on", "building_progress_on", "building_past_on",
   "da_progress_nearby", "da_past_nearby", "building_progress_nearby", "building_past_nearby"}

Application(ram_id, description, decision, progress, received, decided) ==
  [ram_id |-> ram_id, description |-> description,
   category_desc |-> "Material Change of Use", decision |-> decision, progress |-> progress,
   assessment_level |-> "Code", d_date_rec |-> received, d_decision_made |-> decided,
   land_parcel_relationship |-> "Primary"]

Approved == Application("MCU18/0001", "Dual occupancy", "Approved", "Decided", DayMs, 9 * DayMs)
Refused == Application("MCU19/0002", "Multiple dwelling", " Refused ", "Decided", 2 * DayMs, 12 * DayMs)
Lodged == Application("MCU24/0003", "Shop", "", "In Progress", 20 * DayMs, None)

NormalDa ==
  [AllEmpty(DaQueries) EXCEPT
     !.da_past_on = Ok(<<Approved>>),
     !.da_progress_nearby = Ok(<<Lodged>>),
     !.da_past_nearby = Ok(<<Approved, Refused>>)]

DaMalformed ==
  {[NormalDa EXCEPT !.da_past_nearby = Ok(<<Approved, [Refused EXCEPT !.decision = NoneStr]>>)]}

DaDepartures ==
  DaMalformed \cup
  {AllEmpty(DaQueries),
   [NormalDa EXCEPT !.da_past_on = Ok(<<Refused>>),
                    !.da_past_nearby = Ok(<<[Refused EXCEPT !.ram_id = "MCU20/0004"]>>)]}

FloodQueries == {"scc", "layer_0", "layer_1", "layer_2"}

FloodFeature(notes) ==
  [SCENARIO |-> "1% AEP", MAX_FLOOD_FORMAT |-> "3.2m AHD", MAX_FLOOR_FORMAT |-> " 3.7m AHD",
   FREEBOARD |-> "", NOTES |-> notes, lotplan |-> "1RP100"]

NormalFlood ==
  [AllEmpty(FloodQueries) EXCEPT
     !.scc = Ok(<<FloodFeature("Defined flood event")>>),
     !.layer_0 = Ok(<<[STUDY_NAME |-> "Petrie Creek Flood Study", AUTHORITY |-> "SCC"]>>),
     !.layer_1 = Ok(<<[NAME |-> "Petrie Creek Flood Study ", Date |-> "2012"], [OBJECTID |-> 3]>>)]

FloodMalformed == {[NormalFlood EXCEPT !.scc = Ok(<<FloodFeature(NoneStr)>>)]}

FloodDepartures ==
  {AllEmpty(FloodQueries), [NormalFlood EXCEPT !.scc = Ok(<<>>)]} \cup FloodMalformed

ConstraintQueries ==
  {"easements", "covenants", "priority", "habitat", "core_habitat", "category_a", "category_b"}

Easement(in_favour) ==
  [LOTPLAN |-> "1RP100", GAZETTEDAREA |-> "120", NAME |-> "EMT A", PURPOSE1 |-> "Drainage",
   INFAVOUR1 |-> in_favour, STATUS |-> "Current"]

NormalConstraints ==
  [AllEmpty(ConstraintQueries) EXCEPT
     !.easements = Ok(<<Easement("Council"), [Easement("") EXCEPT !.NAME = "", !.PURPOSE1 = " "]>>),
     !.category_b = Ok(<<[OBJECTID |-> 5]>>)]

ConstraintMalformed ==
  {[NormalConstraints EXCEPT !.easements = Ok(<<Easement(NoneStr)>>)],
   [NormalConstraints EXCEPT !.covenants = Ok(<<[NAME |-> NoneStr]>>)]}

ConstraintDepartures ==
  {AllEmpty(ConstraintQueries),
   [AllEmpty(ConstraintQueries) EXCEPT !.habitat = Ok(<<[OBJECTID |-> 2]>>)]}
  \cup ConstraintMalformed


Categories == {SiteReportTasks[i] : i \in 1..Len(SiteReportTasks)}

\* what every service answers when nothing departs
NormalResponses ==
  [zone |-> NormalZone, overlays |-> NormalOverlays, height |-> NormalHeight,
   transport |-> NormalTransport, infrastructure |-> NormalInfrastructure,
   da_history |-> NormalDa, flood_info |-> NormalFlood, constraints |-> NormalConstraints]

Departures ==
  [zone |-> ZoneDepartures, overlays |-> OverlayDepartures, height |-> HeightDepartures,
   transport |-> TransportDepartures, infrastructure |-> InfrastructureDepartures,
   da_history |-> DaDepartures, flood_info |-> FloodDepartures,
   constraints |-> ConstraintDepartures]

\* the responses with a null attribute
Malformed ==
  [zone |-> ZoneMalformed, overlays |-> OverlayMalformed, height |-> HeightMalformed,
   transport |-> TransportMalformed, infrastructure |-> InfrastructureMalformed,
   da_history |-> DaMalformed, flood_info |-> FloodMalformed,
   constraints |-> ConstraintMalformed]

\* every query of the provider fails the same way
Unreachable(category, kind) ==
  CASE category \in {"zone", "height", "transport"} -> Resp(kind, <<>>)
    [] category = "overlays" -> [p \in 1..Len(ALL_OVERLAY_LAYER_IDS) |-> Resp(kind, <<>>)]
    [] category = "infrastructure" -> AllFail(InfrastructureQueries, kind)
    [] category = "da_history" -> AllFail(DaQueries, kind)
    [] category = "flood_info" -> AllFail(FloodQueries, kind)
    [] category = "constraints" -> AllFail(ConstraintQueries, kind)

\* one provider answers d instead of its normal answer
Departing(c, d) == [NormalResponses EXCEPT ![c] = d]

OneDeparture == UNION {{Departing(c, d) : d \in Departures[c]} : c \in Categories}

\* one provider is unreachable
OneUnreachable(kind) == {Departing(c, Unreachable(c, kind)) : c \in Categories}

\* every provider is unreachable
AllUnreachable == [c \in Categories |-> Unreachable(c, "transport")]

\* the located parcels: the local row, one without an area, a large one,
\* and one found through an address
Located(row, address) == [RowParcel(row) EXCEPT !.address = address]

TheAddress ==
  [address |-> "1 Main Street, Nambour", locality |-> "Nambour", lot |-> TheLot,
   plan |-> ThePlan, lotplan |-> TheLot \o ThePlan, lat |-> TheLat, lng |-> TheLng]

NormalParcel == Located(BaseRow, EmptyDict)

AreaMissingParcel == Located([BaseRow EXCEPT !.area_sqm = 0], EmptyDict)

AddressParcel == Located([BaseRow EXCEPT !.area_sqm = 1200], TheAddress)

\* the parcel of the remote cadastre without lot and plan, found by point
UnnumberedParcel ==
  [get_parcel_by_point(<<UnnumberedFeature>>, TheLat, TheLng) EXCEPT !.address = EmptyDict]

ReportArgs(endpoint, parcel_data, responses) ==
  [endpoint |-> endpoint, parcel_data |-> parcel_data, point |-> _get_point(parcel_data),
   responses |-> responses]

Endpoints == {"site_report", "ai_summary"}

\* site_report with every departure; ai_summary with every provider timing
\* out, the zone departures and a malformed application; both with the
\* parcel without an area, with the one found through an address and with
\* the one without lot and plan
ReportSweep ==
  {ReportArgs("site_report", NormalParcel, r) :
     r \in {NormalResponses, AllUnreachable} \cup OneDeparture \cup OneUnreachable("transport")}
  \cup {ReportArgs("ai_summary", NormalParcel, r) :
          r \in {NormalResponses, AllUnreachable} \cup OneUnreachable("timeout")
                \cup {Departing("zone", d) : d \in ZoneDepartures}
                \cup {Departing("da_history", d) : d \in DaMalformed}}
  \cup {ReportArgs(e, AreaMissingParcel, Departing("zone", z)) :
          e \in Endpoints, z \in {NormalZone} \cup ZoneUnavailable}
  \cup {ReportArgs(e, AddressParcel, NormalResponses) : e \in Endpoints}
  \cup {ReportArgs(e, UnnumberedParcel, NormalResponses) : e \in Endpoints}

InitReport ==
  /\ pc = "located"
  /\ args \in ReportSweep
  /\ ret = NoRet
  /\ ReportIdle
  /\ ResolveIdle


\* site_report, Step 3: the eight provider calls are handed to asyncio.gather
FanOutSiteReport ==
  /\ pc = "located"
  /\ args.endpoint = "site_report"
  /\ tasks' = [i \in 1..Len(SiteReportTasks) |-> "pending"]
  /\ slots' = [i \in 1..Len(SiteReportTasks) |-> Pending]
  /\ batch' = StartBatch(0, <<>>)
  /\ pc' = "gather"
  /\ UNCHANGED <<args, ret, resolveVars>>

\* ai_summary, Step 3: the seven provider calls are handed to asyncio.gather
FanOutAiSummary ==
  /\ pc = "located"
  /\ args.endpoint = "ai_summary"
  /\ tasks' = [i \in 1..Len(AiSummaryTasks) |-> "pending"]
  /\ slots' = [i \in 1..Len(AiSummaryTasks) |-> Pending]
  /\ batch' = StartBatch(0, <<>>)
  /\ pc' = "gather"
  /\ UNCHANGED <<args, ret, resolveVars>>

\* get_overlays: the query of the layer at position k of the running batch
\* returns
QueryLayer(k) ==
  /\ pc = "gather"
  /\ tasks[Position(args.endpoint, "overlays")] = "pending"
  /\ k \in DOMAIN batch.results
  /\ batch.results[k] = Pending
  /\ batch' = [batch EXCEPT
                 !.results = GatherStore(@, k, Result(batch.start + k,
                                                      Features(args.responses.overlays[batch.start + k])))]
  /\ UNCHANGED <<pc, args, ret, tasks, slots, resolveVars>>

\* get_overlays: a batch has returned, its entries are appended and the
\* next batch is queried
NextBatch ==
  /\ pc = "gather"
  /\ tasks[Position(args.endpoint, "overlays")] = "pending"
  /\ BatchDone(batch)
  /\ ~LastBatch(batch)
  /\ batch' = StartBatch(batch.start + batch_size, WithBatchEntries(batch))
  /\ UNCHANGED <<pc, args, ret, tasks, slots, resolveVars>>

\* the task at position i finishes: its result is kept, or its exception
\* reaches the handler, which has no handler for it
TaskReturn(i) ==
  /\ pc = "gather"
  /\ i \in DOMAIN tasks
  /\ tasks[i] = "pending"
  /\ LET category == TaskList(args.endpoint)[i]
     IN /\ category = "overlays" => BatchDone(batch) /\ LastBatch(batch)
        /\ \E outcome \in {Outcome(category, args,
                                   IF category = "overlays" THEN WithBatchEntries(batch) ELSE <<>>)} :
             IF outcome.raised
             THEN /\ tasks' = [tasks EXCEPT ![i] = "raised"]
                  /\ ret' = InternalError
                  /\ pc' = "done"
                  /\ UNCHANGED slots
             ELSE /\ tasks' = [tasks EXCEPT ![i] = "done"]
                  /\ slots' = GatherStore(slots, i, Result(category, outcome.value))
                  /\ UNCHANGED <<pc, ret>>
  /\ UNCHANGED <<args, batch, resolveVars>>

\* await asyncio.gather(...) returns the results to the handler
GatherReturn ==
  /\ pc = "gather"
  /\ AllDone(tasks)
  /\ pc' = "compose"
  /\ UNCHANGED <<args, ret, resolveVars, reportVars>>

\* the handler unpacks the results by position and composes its response
Compose ==
  /\ pc = "compose"
  /\ ret' = IF args.endpoint = "site_report"
            THEN SiteReport(args, slots[1].value, slots[2].value, slots[3].value,
                            slots[4].value, slots[5].value, slots[6].value, slots[7].value,
                            slots[8].value)
            ELSE AiSummary(args, slots[1].value, slots[2].value, slots[3].value,
                           slots[4].value, slots[5].value, slots[6].value, slots[7].value)
  /\ pc' = "done"
  /\ UNCHANGED <<args, resolveVars, reportVars>>

NextReport ==
  \/ FanOutSiteReport
  \/ FanOutAiSummary
  \/ \E k \in 1..batch_size : QueryLayer(k)
  \/ NextBatch
  \/ \E i \in 1..Len(SiteReportTasks) : TaskReturn(i)
  \/ GatherReturn
  \/ Compose

SpecReport == InitReport /\ [][NextReport]_vars

-----------------------------------------------------------------------------
(* The precedent analysis under check: one call on an application history  *)
(* with given numbers of approved, refused, lapsed and undecided            *)
(* applications                                                            *)

MaxDecisions == 3

\* decision texts of the council's register
ApprovedTexts == <<"Approved", "Approved with Conditions", "APPROVED", "Deemed approved">>
RefusedTexts == <<"Refused", "Application Refused", "refused", "Refused by Council">>
LapsedTexts == <<"Lapsed", "Permit lapsed", "lapsed", "Lapsed - not acted on">>
UndecidedTexts == <<"", NoneStr, "Withdrawn", "Pending">>

\* a processed application with the n-th text of texts as its decision
Decided(texts, n) ==
  [ram_id |-> "MCU" \o ToString(n), description |-> "Dual occupancy",
   category |-> IF n = 1 THEN "Material Change of Use" ELSE "Reconfiguring a Lot",
   decision |-> texts[((n - 1) % Len(texts)) + 1],
   progress |-> "", assessment_level |-> "Code", date_received |-> "02/01/1970",
   date_decided |-> NoneStr, land_parcel_relationship |-> "Primary"]

Applications(counts) ==
  [n \in 1..counts.approved |-> Decided(ApprovedTexts, n)]
  \o [n \in 1..counts.refused |-> Decided(RefusedTexts, n)]
  \o [n \in 1..counts.lapsed |-> Decided(LapsedTexts, n)]
  \o [n \in 1..counts.in_progress |-> Decided(UndecidedTexts, n)]

\* the history with the first k applications on the parcel, the others nearby
History(counts, k) ==
  LET all == Applications(counts)
  IN [counts |-> counts,
      da_history |-> [on_parcel |-> SubSeq(all, 1, k), nearby |-> SubSeq(all, k + 1, Len(all))]]

PrecedentArgs ==
  UNION {{History(counts, k) : k \in {0, Min(1, counts.approved + counts.refused)}} :
           counts \in [approved : 0..MaxDecisions, refused : 0..MaxDecisions,
                       lapsed : 0..MaxDecisions, in_progress : 0..MaxDecisions]}

InitPrecedent ==
  /\ pc = "call"
  /\ args \in PrecedentArgs
  /\ ret = NoRet
  /\ ResolveIdle
  /\ ReportIdle

Analyze ==
  /\ pc = "call"
  /\ ret' = _analyze_da_precedent(args.da_history)
  /\ pc' = "return"
  /\ UNCHANGED <<args, resolveVars, reportVars>>

NextPrecedent == Analyze

SpecPrecedent == InitPrecedent /\ [][NextPrecedent]_vars

-----------------------------------------------------------------------------
(* The application history under check: one call of get_da_history, the   *)
(* layer queries answering up to MaxFeatures features each                 *)

MaxFeatures == 2

\* what one layer query can answer
LayerAnswers == SeqsUpTo({Approved, Refused}, MaxFeatures)

\* the answers of the eight queries: the decided applications on the parcel,
\* the decided building works on the parcel and the decided applications
\* nearby vary
HistoryArgs ==
  {[resp |-> [AllEmpty(DaQueries) EXCEPT !.da_past_on = Ok(on), !.building_past_on = Ok(building),
                                         !.da_past_nearby = Ok(near)],
    lot_plan |-> "1/RP100"] :
     on \in LayerAnswers, building \in LayerAnswers, near \in LayerAnswers}

InitHistory ==
  /\ pc = "call"
  /\ args \in HistoryArgs
  /\ ret = NoRet
  /\ ResolveIdle
  /\ ReportIdle

GetDaHistory ==
  /\ pc = "call"
  /\ ret' = get_da_history(args.resp, args.lot_plan)
  /\ pc' = "return"
  /\ UNCHANGED <<args, resolveVars, reportVars>>

NextHistory == GetDaHistory

SpecHistory == InitHistory /\ [][NextHistory]_vars

-----------------------------------------------------------------------------
(* The overlay grouping under check: one call of get_overlays_grouped, the *)
(* overlay layers answering up to MaxOverlayFeatures features each         *)

MaxOverlayFeatures == 2

\* the features of an overlay layer: a label, the same label again on
\* another feature, a null label, the text "None", no LABEL attribute
OverlayFeatures ==
  {[LABEL |-> "Area A"], [LABEL |-> NoneStr], [LABEL |-> "None"], [OBJECTID |-> 7]}

OverlayAnswers == SeqsUpTo(OverlayFeatures, MaxOverlayFeatures)

\* the answers of the layers in the order of ALL_OVERLAY_LAYER_IDS
OverlayArgs ==
  {[answers |-> <<Ok(first), Ok(second), Ok(third)>>] :
     first \in OverlayAnswers, second \in OverlayAnswers,
     third \in {<<>>, <<[LABEL |-> "Area A"]>>}}

\* raw = await get_overlays(lat, lng, geometry=geometry)
RawOverlays(answers) ==
  BatchEntries(0, [p \in 1..Len(ALL_OVERLAY_LAYER_IDS) |-> Features(answers[p])])

InitOverlays ==
  /\ pc = "call"
  /\ args \in OverlayArgs
  /\ ret = NoRet
  /\ ResolveIdle
  /\ ReportIdle

GetOverlaysGrouped ==
  /\ pc = "call"
  /\ ret' = GroupOverlays(RawOverlays(args.answers))
  /\ pc' = "return"
  /\ UNCHANGED <<args, resolveVars, reportVars>>

NextOverlays == GetOverlaysGrouped

SpecOverlays == InitOverlays /\ [][NextOverlays]_vars

-----------------------------------------------------------------------------
(* The rule lookup under check: one call of get_planning_rules on a zone   *)
(* code, a region and a planning_rules table                               *)

\* zone codes: the keys of the table, keys in another case, parts of keys,
\* texts holding a key, codes of no table entry
RuleCodes ==
  ExactZoneCodes \cup FuzzyZoneCodes \cup UnknownZoneCodes
  \cup {"RURAL ZONE", "Centre", "Precinct of the Open Space Zone"}

RuleLgas == {DefaultLga, "Noosa Shire"}

\* a row of the planning_rules table
RulesRow(zone_code, lga, density) ==
  [zone_code |-> zone_code, lga |-> lga,
   rules |-> [CustomRule(density, 450, 40, 2 * CmPerM, 4 * CmPerM) EXCEPT !.zone_code = zone_code]]

\* tables without the code, with it for either region, and with it behind
\* the row of another zone; (zone_code, lga) is the key of the table
RuleTables(zone_code) ==
  {<<>>,
   <<RulesRow(zone_code, DefaultLga, "2 per 400sqm")>>,
   <<RulesRow(zone_code, "Noosa Shire", "1 per 500sqm")>>,
   <<RulesRow("Village Zone", DefaultLga, "1 per lot"),
     RulesRow(zone_code, DefaultLga, "2 per 400sqm")>>}

RuleArgs ==
  UNION {{[zone_code |-> c, lga |-> l, planning_rules |-> t] : l \in RuleLgas, t \in RuleTables(c)} :
           c \in RuleCodes}

InitRules ==
  /\ pc = "call"
  /\ args \in RuleArgs
  /\ ret = NoRet
  /\ ResolveIdle
  /\ ReportIdle

GetPlanningRules ==
  /\ pc = "call"
  /\ ret' = get_planning_rules(args.planning_rules, args.zone_code, args.lga)
  /\ pc' = "return"
  /\ UNCHANGED <<args, resolveVars, reportVars>>

NextRules == GetPlanningRules

SpecRules == InitRules /\ [][NextRules]_vars

-----------------------------------------------------------------------------
(* The two tiers under check: the lookup of a lot and plan in the local    *)
(* index and in the remote cadastre, both holding the same cadastral       *)
(* records, up to MaxRecords of them                                       *)

MaxRecords == 2

\* a cadastral record: the arguments of ParcelRow and of ParcelFeature
Record(lot, plan, cover, tenure, area) ==
  [lot |-> lot, plan |-> plan, cover |-> cover, tenure |-> tenure, area |-> area]

CadastralRecords ==
  {Record(TheLot, ThePlan, cover, tenure, area) :
     cover \in {"Base", "Easement"}, tenure \in {"Freehold", NoneStr}, area \in {600, 0}}
  \cup {Record("9", "SP900", "Base", "Freehold", 800)}

\* the record as a row of the parcels table
AsRow(r) ==
  [ParcelRow(r.lot, r.plan, r.cover, r.tenure, r.area, TheGeometry) EXCEPT !.feature_name = ""]

\* the record as a feature of the remote cadastre
AsFeature(r) == ParcelFeature(r.lot, r.plan, r.cover, r.tenure, r.area, TheGeometry)

TierArgs ==
  {[records |-> q, lot |-> TheLot, plan |-> ThePlan] : q \in SeqsUpTo(CadastralRecords, MaxRecords)}

InitTiers ==
  /\ pc = "call"
  /\ args \in TierArgs
  /\ ret = NoRet
  /\ ResolveIdle
  /\ ReportIdle

\* the lookup through each tier
LookupBothTiers ==
  /\ pc = "call"
  /\ ret' = [local |-> get_parcel_by_lotplan_db([i \in 1..Len(args.records) |-> AsRow(args.records[i])],
                                                args.lot, args.plan),
             remote |-> get_parcel_by_lotplan([i \in 1..Len(args.records) |-> AsFeature(args.records[i])],
                                             args.lot, args.plan)]
  /\ pc' = "return"
  /\ UNCHANGED <<args, resolveVars, reportVars>>

NextTiers == LookupBothTiers

SpecTiers == InitTiers /\ [][NextTiers]_vars

-----------------------------------------------------------------------------
(* Properties of the calculator *)

Returned == pc = "return"

HasEnvelope == Returned /\ "buildable_envelope" \in DOMAIN ret

\* the zone code the calculator looks rules up with
ArgZoneCode == IF args.zone # NoZone THEN args.zone.code ELSE "Unknown"

\* the rules the calculator works from
ArgRules == IF args.rules = NoRules THEN get_zone_rules(ArgZoneCode) ELSE args.rules

\* C4: a parcel whose area is absent, null or zero gets the missing-area error
\* and no buildable_envelope, subdivision or lot_compliance; a parcel with a
\* positive area never gets that error.
C4_MissingArea ==
  Returned =>
    IF args.parcel.area_sqm = None \/ args.parcel.area_sqm = 0
    THEN /\ "error" \in DOMAIN ret
         /\ ret.error = "No lot area data - cannot calculate buildability"
         /\ DOMAIN ret \cap {"buildable_envelope", "subdivision", "lot_compliance"} = {}
    ELSE "error" \notin DOMAIN ret

C4_Witness ==
  /\ Returned
  /\ args.parcel.area_sqm = 0
  /\ args.zone.code = "Low Density Residential Zone"
  /\ DOMAIN ret = {"zone", "error"}

\* C5: when neither the caller's rules, the built-in table nor the
\* planning_rules table resolve rules for the zone, the calculation fails
\* with an error instead of returning an envelope.
C5_UnknownZone ==
  (/\ Returned
   /\ args.parcel.area_sqm # None /\ args.parcel.area_sqm > 0
   /\ args.rules = NoRules
   /\ get_planning_rules(args.planning_rules, ArgZoneCode, DefaultLga) = NoRules)
  => "error" \in DOMAIN ret

\* the density rules of the form "N per M sqm" among the inputs, with N and M
C9_Forms ==
  {<<"1 per 50sqm", 1, 50>>, <<"1 per 75sqm", 1, 75>>, <<"1 per 100sqm", 1, 100>>,
   <<"1 per 150sqm", 1, 150>>, <<"1 per 200sqm", 1, 200>>, <<"1 per 300sqm", 1, 300>>,
   <<"2 per 400sqm", 2, 400>>}

\* C9 as stated: a density rule "N per M sqm" yields N * floor(area / M)
\* dwellings, also when the area is smaller than M.
C9_DensityYield ==
  HasEnvelope =>
    \A density_rule \in {ArgRules.max_dwelling_density} : \A f \in C9_Forms :
      density_rule = f[1] =>
        ret.buildable_envelope.max_dwellings = f[2] * (args.parcel.area_sqm \div f[3])

\* C9 as the code has it: a density rule "N per M sqm" yields
\* max(1, N * floor(area / M)) dwellings.
C9_DensityYieldAtLeastOne ==
  HasEnvelope =>
    \A density_rule \in {ArgRules.max_dwelling_density} : \A f \in C9_Forms :
      density_rule = f[1] =>
        ret.buildable_envelope.max_dwellings
          = Max(1, f[2] * (args.parcel.area_sqm \div f[3]))

C9_Witness ==
  /\ HasEnvelope
  /\ ArgRules.max_dwelling_density = "2 per 400sqm"
  /\ args.parcel.area_sqm = 10 * AreaStep
  /\ ret.buildable_envelope.max_dwellings = 4

\* the density rules among the inputs that are neither a "per lot" rule,
\* nor a value without entitlement, nor of the form "N per M sqm"
C23_Unparseable == {"3 per", "one per 200sqm"}

\* C23: a density rule holding "per lot" yields one dwelling on every
\* area; "Caretaker only" and "None" yield none; a missing rule and a rule
\* that cannot be parsed yield one.
C23_DensityDefaults ==
  HasEnvelope =>
    LET density_rule == ArgRules.max_dwelling_density
        max_dwellings == ret.buildable_envelope.max_dwellings
    IN /\ args.parcel.area_sqm > 0
       /\ density_rule # NoneStr /\ Contains(Lower(density_rule), "per lot") => max_dwellings = 1
       /\ density_rule \in {"Caretaker only", "None"} => max_dwellings = 0
       /\ density_rule \in {NoneStr, ""} \cup C23_Unparseable => max_dwellings = 1

C23_Witness ==
  /\ HasEnvelope
  /\ ArgRules.max_dwelling_density = "None"
  /\ args.parcel.area_sqm = 10 * AreaStep
  /\ ret.buildable_envelope.max_dwellings = 0

\* the type of the notes of an overlay category of the planning scheme:
\* the first of bushfire, flood, heritage, landslide, steep land,
\* biodiversity, coastal, acid sulfate its name falls under, else other
TableNoteType(category) ==
  CASE category = "Bushfire Hazard" -> "bushfire"
    [] category = "Flood Hazard" -> "flood"
    [] category = "Heritage and Character Areas" -> "heritage"
    [] category = "Landslide Hazard and Steep Land" -> "landslide"
    [] category = "Steep Land" -> "steep_land"
    [] category = "Biodiversity, Waterways and Wetlands" -> "biodiversity"
    [] category = "Coastal Protection" -> "coastal"
    [] category = "Acid Sulfate Soils" -> "acid_sulfate"
    [] OTHER -> "other"

\* the layers of the groups other than the height category, each with the
\* category of its group, in the order of the overlay list
RECURSIVE NotedLayers(_)
NotedLayers(overlays) ==
  IF overlays = <<>> THEN <<>>
  ELSE LET group == Head(overlays)
       IN (IF group.category = "Height of Buildings and Structures" THEN <<>>
           ELSE [k \in 1..Len(group.layers) |->
                   [category |-> group.category, layer |-> group.layers[k]]])
          \o NotedLayers(Tail(overlays))

\* C25: the note list holds one note for every layer of every overlay group
\* but the groups of the height category, which get none; the type of a
\* note is the first category of the order that the group's category
\* matches.
C25_OverlayNotes ==
  HasEnvelope =>
    LET noted == NotedLayers(args.overlays)
    IN /\ Len(ret.constraints) = Len(noted)
       /\ \A k \in 1..Len(noted) :
            /\ ret.constraints[k].type = TableNoteType(noted[k].category)
            /\ ret.constraints[k].label = noted[k].layer.label

C25_Witness ==
  /\ HasEnvelope
  /\ Len(args.overlays) = 3
  /\ args.overlays[2].category = "Height of Buildings and Structures"
  /\ Len(args.overlays[2].layers) = 2
  /\ Len(ret.constraints) = 3
  /\ ret.constraints[1].type = "heritage"
  /\ ret.constraints[3].type = "biodiversity"

\* C10: the effective footprint is the smaller of area * cover / 100 and
\* buildable width * buildable depth, width and depth being the side of the
\* square of the parcel's area less the setbacks, clamped at zero.
C10_EffectiveFootprint ==
  HasEnvelope =>
    LET area == args.parcel.area_sqm * Cm2PerM2
        cover == (area \div 100) * ret.rules.max_site_cover_pct
        side == CHOOSE x \in {Isqrt(area)} : x * x <= area /\ area < (x + 1) * (x + 1)
        w == side - 2 * ret.rules.side_setback_m
        d == side - ret.rules.front_setback_m - ret.rules.rear_setback_m
        width == IF w < 0 THEN 0 ELSE w
        depth == IF d < 0 THEN 0 ELSE d
        footprint == ret.buildable_envelope.max_footprint_sqm
    IN /\ footprint >= 0
       /\ footprint <= cover
       /\ footprint <= width * depth
       /\ footprint = cover \/ footprint = width * depth
       /\ ret.buildable_envelope.buildable_area_after_setbacks_sqm = width * depth

\* 600 m2 at 50 % cover with setbacks 6 / 1.5 / 6: the setback rectangle binds
C10_Witness ==
  /\ HasEnvelope
  /\ args.parcel.area_sqm = 6 * AreaStep
  /\ ret.rules.max_site_cover_pct = 50
  /\ ret.rules.front_setback_m = 6 * CmPerM
  /\ ret.rules.side_setback_m = (3 * CmPerM) \div 2
  /\ ret.rules.rear_setback_m = 6 * CmPerM
  /\ ret.buildable_envelope.max_footprint_sqm < 300 * Cm2PerM2
  /\ ret.buildable_envelope.max_footprint_sqm > 268 * Cm2PerM2
  /\ ret.buildable_envelope.max_footprint_sqm < 269 * Cm2PerM2

\* C11: with a minimum lot size defined, can_subdivide is area >= 2 x the
\* minimum and max_new_lots is floor(area / minimum); with none defined,
\* can_subdivide is false and max_new_lots is 0.
C11_Subdivision ==
  HasEnvelope =>
    LET min_lot == ArgRules.min_lot_size_sqm
        area == args.parcel.area_sqm
    IN IF min_lot # None /\ min_lot > 0
       THEN /\ ret.subdivision.can_subdivide = (area >= 2 * min_lot)
            /\ ret.subdivision.max_new_lots = area \div min_lot
       ELSE /\ ret.subdivision.can_subdivide = FALSE
            /\ ret.subdivision.max_new_lots = 0

\* 900 m2 with a minimum of 400 m2: two lots
C11_Witness ==
  /\ HasEnvelope
  /\ args.parcel.area_sqm = 900
  /\ ArgRules.min_lot_size_sqm = 400
  /\ ret.subdivision.can_subdivide
  /\ ret.subdivision.max_new_lots = 2

\* C30: in every result with an envelope, can_subdivide is true exactly
\* when max_new_lots is at least 2: no subdivision with fewer than two
\* lots, and none denied with two or more.
C30_SubdivideIffTwoLots ==
  HasEnvelope => (ret.subdivision.can_subdivide <=> ret.subdivision.max_new_lots >= 2)

\* more than one minimum lot and less than two: one lot, no subdivision
C30_Witness ==
  /\ HasEnvelope
  /\ ArgRules.min_lot_size_sqm # None
  /\ args.parcel.area_sqm > ArgRules.min_lot_size_sqm
  /\ args.parcel.area_sqm < 2 * ArgRules.min_lot_size_sqm
  /\ ~ret.subdivision.can_subdivide
  /\ ret.subdivision.max_new_lots = 1

-----------------------------------------------------------------------------
(* Properties of the scorer *)

\* C3: the score is in 1..100 whatever deductions accumulate, and it is
\* exactly 100 with an empty deduction list when every input is empty.
C3_ScoreRange ==
  Returned =>
    /\ ret.score \in 1..100
    /\ (/\ args.overlays = <<>>
        /\ args.flood_info = EmptyDict
        /\ args.constraints = EmptyDict
        /\ args.infrastructure = EmptyDict
        /\ args.buildability = EmptyDict)
       => (ret.score = 100 /\ ret.deductions = <<>>)

\* two flood groups, direct flood mapping and more: over 100 points deducted
C3_Witness ==
  /\ Returned
  /\ args.overlays = HeavyOverlays
  /\ args.flood_info = [has_flood_data |-> TRUE]
  /\ Len(ret.deductions) >= 3
  /\ ret.score = 1

Compared == pc = "compared"

\* the amount a deduction text records: the number of its closing "(-N)"
RecordedAmount(text) ==
  LET parts == Split(text, "(-") IN DigitsValue(FilterDigits(parts[Len(parts)]))

RECURSIVE RecordedTotal(_)
RecordedTotal(texts) ==
  IF texts = <<>> THEN 0 ELSE RecordedAmount(Head(texts)) + RecordedTotal(Tail(texts))

\* the deduction table of the specification, by the category of a group
TableAmount(group) ==
  LET count == Len(group.layers)
  IN CASE group.category = "Bushfire Hazard" -> 12 * count
       [] group.category = "Flood Hazard" -> 15 * count
       [] group.category = "Heritage and Character Areas" -> 8 * count
       [] group.category = "Landslide Hazard" -> 15
       [] group.category = "Steep Land" -> 10
       [] group.category = "Biodiversity, Waterways and Wetlands" -> 10 * count
       [] group.category = "Coastal Protection" -> 10 * count
       [] group.category = "Acid Sulfate Soils" -> 5
       [] group.category = "Scenic Amenity" -> 5
       [] OTHER -> 0

RECURSIVE TableOverlays(_)
TableOverlays(overlays) ==
  IF overlays = <<>> THEN 0 ELSE TableAmount(Head(overlays)) + TableOverlays(Tail(overlays))

\* the sum of the deductions the table gives for the arguments of the call
TableTotal ==
  LET c == args.constraints
      i == args.infrastructure
      b == args.buildability
  IN TableOverlays(args.overlays)
     + (IF args.flood_info = [has_flood_data |-> TRUE] THEN 15 ELSE 0)
     + (IF c = EmptyDict THEN 0
        ELSE 5 * c.easements_count + 5 * c.covenants_count
             + (IF c.koala.status # NoneStr THEN 10 ELSE 0)
             + (IF c.esa.status # NoneStr THEN 10 ELSE 0))
     + (IF i = EmptyDict THEN 0
        ELSE (IF i.water.available THEN 0 ELSE 8)
             + (IF "sewer" \in DOMAIN i /\ i.sewer.available THEN 0 ELSE 8))
     + (IF "lot_compliance" \in DOMAIN b /\ ~b.lot_compliance.compliant THEN 5 ELSE 0)

\* C12: the score is 100 minus the sum of the deductions of the table
\* (bushfire 12, flood overlay 15, heritage/character 8, biodiversity/waterway
\* 10 and coastal 10 per layer; landslide 15, steep 10, acid sulfate 5 and
\* scenic 5 per group; direct flood mapping 15; 5 per easement and covenant;
\* koala 10; ESA 10; no water 8; no sewer 8; lot non-compliant 5), clamped to
\* 1..100, and the amounts recorded in the deduction list sum to that total.
C12_ScoreFormula ==
  Returned =>
    /\ ret.score = Max(1, Min(100, 100 - TableTotal))
    /\ RecordedTotal(ret.deductions) = TableTotal

\* a landslide group of several layers, direct flood mapping, easements,
\* covenants, koala habitat and an ESA: 15 + 15 + 5n + 5n + 10 + 10 deducted
C12_Witness ==
  /\ Returned
  /\ args.overlays = <<Group("Landslide Hazard", MaxLayers)>>
  /\ args.flood_info = [has_flood_data |-> TRUE]
  /\ args.constraints # EmptyDict
  /\ Len(ret.deductions) = 6
  /\ ret.score = 50 - 10 * MaxCount

\* C13: one more deduction-triggering input never raises the score.
C13_Monotone == Compared => ret.more.score <= ret.base.score

\* direct flood mapping added to a site with one bushfire layer: 88, then 73
C13_Witness ==
  /\ Compared
  /\ args.base.overlays = <<Group("Bushfire Hazard", 1)>>
  /\ args.base.flood_info = EmptyDict
  /\ args.more.flood_info = [has_flood_data |-> TRUE]
  /\ ret.base.score = 88
  /\ ret.more.score = 73

\* the heading under which the table scores the category of a group
TableHeading(group) ==
  CASE group.category = "Bushfire Hazard" -> <<"Bushfire overlay">>
    [] group.category = "Flood Hazard" -> <<"Flood overlay">>
    [] group.category = "Heritage and Character Areas" -> <<"Heritage/Character">>
    [] group.category = "Landslide Hazard" -> <<"Landslide hazard">>
    [] group.category = "Steep Land" -> <<"Steep land">>
    [] group.category = "Biodiversity, Waterways and Wetlands" -> <<"Biodiversity/Waterway">>
    [] group.category = "Coastal Protection" -> <<"Coastal protection">>
    [] group.category = "Acid Sulfate Soils" -> <<"Acid sulfate soils">>
    [] group.category = "Scenic Amenity" -> <<"Scenic amenity">>
    [] OTHER -> <<>>

RECURSIVE OverlayHeadings(_)
OverlayHeadings(overlays) ==
  IF overlays = <<>> THEN <<>> ELSE TableHeading(Head(overlays)) \o OverlayHeadings(Tail(overlays))

\* the headings of the deductions the arguments of the call give rise to,
\* in the order in which the categories are evaluated
EvaluationOrder ==
  LET c == args.constraints
      i == args.infrastructure
      b == args.buildability
      If(cond, heading) == IF cond THEN <<heading>> ELSE <<>>
  IN OverlayHeadings(args.overlays)
     \o If(args.flood_info = [has_flood_data |-> TRUE], "Direct flood mapping")
     \o If(c # EmptyDict /\ c.easements_count > 0, "Easements")
     \o If(c # EmptyDict /\ c.covenants_count > 0, "Covenants")
     \o If(c # EmptyDict /\ c.koala.status # NoneStr, "Koala habitat")
     \o If(c # EmptyDict /\ c.esa.status # NoneStr, "ESA area")
     \o If(i # EmptyDict /\ ~i.water.available, "No reticulated water")
     \o If(i # EmptyDict /\ ~("sewer" \in DOMAIN i /\ i.sewer.available), "No reticulated sewer")
     \o If("lot_compliance" \in DOMAIN b /\ ~b.lot_compliance.compliant, "Lot non-compliant")

\* text opens with heading
OpensWith(text, heading) ==
  Len(text) >= Len(heading) /\ SubSeq(text, 1, Len(heading)) = heading

-----------------------------------------------------------------------------
(* Properties of the rule lookup *)

Looked == pc = "return" /\ "lga" \in DOMAIN args

\* the table entries whose key is the code
ExactEntries == {i \in 1..Len(ZONE_RULES) : ZONE_RULES[i].key = args.zone_code}

\* the table entries whose key, case apart, holds the code or is held by it
SubstringEntries ==
  {i \in 1..Len(ZONE_RULES) :
     \/ Contains(Lower(ZONE_RULES[i].key), Lower(args.zone_code))
     \/ Contains(Lower(args.zone_code), Lower(ZONE_RULES[i].key))}

\* the rows of the planning_rules table for the code and the region
TableRows ==
  {i \in 1..Len(args.planning_rules) :
     /\ args.planning_rules[i].zone_code = args.zone_code
     /\ args.planning_rules[i].lga = args.lga}

\* every zone code has one entry
OneEntryPerCode ==
  \A i, j \in 1..Len(ZONE_RULES) : ZONE_RULES[i].key = ZONE_RULES[j].key => i = j

\* ret is the table entry i under the code and the source given
IsEntry(i, code, source) ==
  /\ ret.zone_code = code
  /\ ret.source = source
  /\ \A f \in DOMAIN ZONE_RULES[i] : ret[f] = ZONE_RULES[i][f]

\* C21: the rules of a zone code are the table entry of that key; without
\* such a key, the first entry matching as a substring, case apart;
\* without any, the row of the planning_rules table for the code and the
\* region; without one, no rules.
C21_LookupOrder ==
  Looked =>
    /\ OneEntryPerCode
    /\ IF ExactEntries # {}
       THEN \E i \in ExactEntries : IsEntry(i, args.zone_code, "scc_planning_scheme")
       ELSE IF SubstringEntries # {}
       THEN \E i \in SubstringEntries :
              /\ \A j \in SubstringEntries : i <= j
              /\ IsEntry(i, ZONE_RULES[i].key, "scc_planning_scheme_fuzzy")
       ELSE IF TableRows # {}
       THEN \E i \in TableRows : ret = args.planning_rules[i].rules
       ELSE ret = NoRules

C21_Witness ==
  /\ Looked
  /\ args.zone_code = "Township Zone"
  /\ Len(args.planning_rules) = 2
  /\ ret.source = "planning_rules"
  /\ ret.max_dwelling_density = "2 per 400sqm"

-----------------------------------------------------------------------------
(* Properties of the two tiers *)

\* both lookups are done for a lot and plan the local index holds
LookedUpInBoth ==
  /\ pc = "return"
  /\ "records" \in DOMAIN args
  /\ \E i \in 1..Len(args.records) :
       args.records[i].lot = args.lot /\ args.records[i].plan = args.plan

\* C22: a lot and plan held by the local index resolves to the same parcel
\* through the local tier and through the remote tier, also with several
\* records of different cover types and with an area of zero.
C22_SameParcel ==
  LookedUpInBoth =>
    /\ ret.local # NoParcel
    /\ ret.remote # NoParcel
    /\ ret.local.parcel = ret.remote.parcel

\* the lot and plan has a record of cover type Base, and the first such
\* record has an area
BaseWithArea ==
  LET base == SelectSeq(args.records,
                        LAMBDA r : r.lot = args.lot /\ r.plan = args.plan /\ r.cover = "Base")
  IN base # <<>> /\ Head(base).area # 0

\* the same for the lots whose first Base record has an area
SameParcelOfBaseWithArea == LookedUpInBoth /\ BaseWithArea => C22_SameParcel

-----------------------------------------------------------------------------
(* Properties of the precedent analysis *)

Analyzed == pc = "return" /\ "counts" \in DOMAIN args

\* C14: for every combination of approved, refused, lapsed and undecided
\* applications the analysis reports those counts, and the outlook is, in
\* this order of priority: the neutral baseline with every count zero when
\* there is no application; positive when nothing was refused and something
\* approved; positive when approvals exceed twice the refusals; negative
\* when refusals exceed approvals; neutral otherwise.
C14_Outlook ==
  Analyzed =>
    LET a == args.counts.approved
        r == args.counts.refused
        l == args.counts.lapsed
        p == args.counts.in_progress
    IN /\ ret.approved_count = a
       /\ ret.refused_count = r
       /\ ret.lapsed_count = l
       /\ ret.in_progress_count = p
       /\ ret.total_count = a + r + l + p
       /\ ret.on_parcel_count + ret.nearby_count = ret.total_count
       /\ IF a + r + l + p = 0
          THEN /\ ret.outlook = "neutral"
               /\ ret.assessment = "No precedent data available in area"
               /\ ret.top_categories = <<>>
          ELSE IF r = 0 /\ a > 0 THEN ret.outlook = "positive"
          ELSE IF a > 2 * r THEN ret.outlook = "positive"
          ELSE IF r > a THEN ret.outlook = "negative"
          ELSE ret.outlook = "neutral"

C14_Witness ==
  /\ Analyzed
  /\ args.counts = [approved |-> 1, refused |-> 2, lapsed |-> 1, in_progress |-> 1]
  /\ ret.outlook = "negative"
  /\ ret.total_count = 5

-----------------------------------------------------------------------------
(* Properties of the application history *)

Fetched == pc = "return" /\ "resp" \in DOMAIN args /\ ~ret.raised

\* C15: no case id appears twice in the on-parcel and nearby lists taken
\* together, so that the three counts count distinct applications.
C15_CountedOnce ==
  Fetched =>
    LET all == ret.value.on_parcel \o ret.value.nearby
        ids == {all[i].ram_id : i \in 1..Len(all)}
    IN /\ \A i, j \in 1..Len(all) : all[i].ram_id = all[j].ram_id => i = j
       /\ ret.value.total_count = Cardinality(ids)
       /\ ret.value.on_parcel_count + ret.value.nearby_count = Cardinality(ids)

-----------------------------------------------------------------------------
(* Properties of the overlay grouping *)

Grouped == pc = "return" /\ "answers" \in DOMAIN args

\* the positions <<g, k>> of the layer entries of the returned groups
EntryPositions == {gk \in (1..Len(ret)) \X (1..10) : gk[2] <= Len(ret[gk[1]].layers)}

\* the positions whose entry carries the pair of item
PositionsOf(item) ==
  {gk \in EntryPositions : /\ ret[gk[1]].layers[gk[2]].layer_id = item.layer_id
                           /\ ret[gk[1]].layers[gk[2]].label = item.label}

\* where the pair of a returned entry is first seen in raw
FirstIndex(raw, entry) ==
  CHOOSE i \in 1..Len(raw) :
    /\ raw[i].layer_id = entry.layer_id /\ raw[i].label = entry.label
    /\ \A j \in 1..(i - 1) : ~(raw[j].layer_id = entry.layer_id /\ raw[j].label = entry.label)

\* C16: no two returned layer entries share their (layer id, label) pair,
\* and every pair of the raw results appears exactly once, in the group of
\* its category, the entries of a group in first-seen order.
C16_PairsOnce ==
  Grouped =>
    LET raw == RawOverlays(args.answers)
    IN /\ \A i \in 1..Len(raw) :
            /\ Cardinality(PositionsOf(raw[i])) = 1
            /\ \A gk \in PositionsOf(raw[i]) : ret[gk[1]].category = raw[i].category
       /\ \A gk \in EntryPositions :
            \E i \in 1..Len(raw) : gk \in PositionsOf(raw[i])
       /\ \A g \in 1..Len(ret) : \A k1, k2 \in 1..Len(ret[g].layers) :
            k1 < k2 => FirstIndex(raw, ret[g].layers[k1]) < FirstIndex(raw, ret[g].layers[k2])

\* no label of the answers is the text "None", the form str() gives a null
\* label
TextLabels ==
  \A p \in 1..Len(args.answers) : \A i \in 1..Len(args.answers[p].features) :
    "LABEL" \in DOMAIN args.answers[p].features[i] =>
      args.answers[p].features[i].LABEL # "None"

\* the same for answers without such a label
PairsOnceOfTextLabels == Grouped /\ TextLabels => C16_PairsOnce

-----------------------------------------------------------------------------
(* Properties of the resolver *)

Done == pc = "done"

\* the lookups of the current request that found nothing in the local index
LocalMisses == {i \in 1..Len(calls) : calls[i].tier = "local" /\ ~calls[i].hit}

\* C2: a request ends with 404 only after both tiers were asked: every
\* lookup that found nothing in the local index, the address search
\* included, has its remote counterpart among the lookups of the request.
C2_NotFoundAfterBothTiers ==
  (Done /\ ret.status = 404) =>
    \A i \in LocalMisses :
      \E j \in 1..Len(calls) : calls[j].tier = "remote" /\ calls[j].op = calls[i].op

\* the request is resolved by its address
ByAddress ==
  /\ Done
  /\ ~(TruthyStr(args.request.lot) /\ TruthyStr(args.request.plan))
  /\ ~(args.request.lat # None /\ args.request.lng # None)
  /\ TruthyStr(args.request.address)

\* the lookups of one kind issued for the current request
CallsOf(op) == {i \in 1..Len(calls) : calls[i].op = op}

\* the address record the search chose: the first answer of the tier whose
\* search found one
Chosen ==
  LET i == CHOOSE i \in CallsOf("address") : calls[i].hit
  IN IF calls[i].tier = "local"
     THEN search_addresses_db(world.addresses, args.request.address, 1)[1]
     ELSE search_addresses(world.address_features, args.request.address, 1)[1]

\* the chosen address record carries a lot / plan and a coordinate
CandidateWithBoth ==
  /\ ByAddress
  /\ \E i \in CallsOf("address") : calls[i].hit
  /\ TruthyStr(Chosen.lot) /\ TruthyStr(Chosen.plan)
  /\ TruthyNum(Chosen.lat) /\ TruthyNum(Chosen.lng)

\* within the lookups of one kind the local tier comes first, and the
\* remote tier is asked only after a local miss
LocalThenRemote(op) ==
  \A i, j \in CallsOf(op) :
    calls[i].tier = "local" /\ calls[j].tier = "remote" => i < j /\ ~calls[i].hit

\* C17: for a candidate address with a lot / plan and a coordinate, the
\* parcel is looked up by lot / plan first, local tier then remote tier,
\* and by coordinate, local then remote, only after the lot / plan lookup
\* found no parcel in either tier.
C17_LotplanFirst ==
  CandidateWithBoth =>
    /\ CallsOf("lotplan") # {}
    /\ \A i \in CallsOf("address"), j \in CallsOf("lotplan") : i < j
    /\ \A i \in CallsOf("lotplan"), j \in CallsOf("point") : i < j /\ ~calls[i].hit
    /\ CallsOf("point") # {} =>
         \E i \in CallsOf("lotplan") : calls[i].tier = "remote" /\ ~calls[i].hit
    /\ LocalThenRemote("lotplan")
    /\ LocalThenRemote("point")

C17_Witness ==
  /\ CandidateWithBoth
  /\ args.endpoint = "site_report"
  /\ calls = <<Call("local", "address", TRUE), Call("local", "lotplan", FALSE),
               Call("remote", "lotplan", FALSE), Call("local", "point", FALSE),
               Call("remote", "point", FALSE)>>
  /\ ret.status = 404

\* the parcel Step 1 of the current site_report or ai_summary request found
Found ==
  FindParcel(args.request, world,
             IF args.endpoint = "site_report" THEN _use_db = "True"
             ELSE db_available(world, db_up),
             db_up)

\* a request of site_report or ai_summary whose parcel is resolved
ParcelResolved ==
  /\ Done
  /\ args.endpoint \in {"site_report", "ai_summary"}
  /\ Found.status = 200

\* the tenure the tenure service holds for the parcel, NoneStr for none
HeldTenure(parcel) ==
  LET held == {i \in 1..Len(world.tenures) :
                 /\ world.tenures[i].properties.lot = parcel.lot
                 /\ world.tenures[i].properties.plan = parcel.plan}
  IN IF held = {} THEN NoneStr
     ELSE world.tenures[CHOOSE i \in held : \A j \in held : i <= j].properties.tenure

\* the tenure lookup is issued once, after the parcel lookups, for the
\* parcels that want one and never for the others; it changes the tenure
\* of the parcel only, and only when it finds one
TenureContract(wanted) ==
  LET before == Found.parcel_data
      held == HeldTenure(before.parcel)
  IN /\ Cardinality(CallsOf("tenure")) = (IF wanted THEN 1 ELSE 0)
     /\ \A i \in CallsOf("tenure") : i = Len(calls) /\ calls[i].hit = TruthyStr(held)
     /\ ret.status = 200 =>
          ret.parcel_data =
            IF wanted /\ TruthyStr(held) THEN [before EXCEPT !.parcel.tenure = held]
            ELSE before

\* C18 as stated: every resolved parcel without a tenure gets one tenure
\* lookup, every parcel with a tenure none; the lookup fills in the tenure
\* only, and a lookup that finds none leaves the parcel as it was.
C18_TenureLookup ==
  ParcelResolved => TenureContract(~TruthyStr(Found.parcel_data.parcel.tenure))

\* C18: the same for the parcels without a tenure that have a lot and a
\* plan; a parcel without a lot or a plan gets no lookup.
C18_TenureLookupOfLotPlan ==
  ParcelResolved =>
    TenureContract(/\ ~TruthyStr(Found.parcel_data.parcel.tenure)
                   /\ TruthyStr(Found.parcel_data.parcel.lot)
                   /\ TruthyStr(Found.parcel_data.parcel.plan))

C18_Witness ==
  /\ ParcelResolved
  /\ ~TruthyStr(Found.parcel_data.parcel.tenure)
  /\ calls[Len(calls)] = Call("remote", "tenure", TRUE)
  /\ ret.status = 200
  /\ ret.parcel_data.parcel.tenure = "Leasehold"

\* the request supplies a selector: a lot with a plan, a latitude with a
\* longitude, or an address; an empty text supplies nothing
Supplied(req) ==
  \/ req.lot \notin {NoneStr, ""} /\ req.plan \notin {NoneStr, ""}
  \/ req.lat # None /\ req.lng # None
  \/ req.address \notin {NoneStr, ""}

\* C19: a request is answered 400 exactly when it supplies no selector, and
\* then neither tier has been asked anything: no lookup is issued and the
\* availability of the local index is not probed.
C19_AmbiguousInput ==
  [][pc = "idle" /\ pc' = "done" =>
       /\ (ret'.status = 400) <=> ~Supplied(args'.request)
       /\ ret'.status = 400 => calls' = <<>> /\ _use_db' = _use_db]_vars

C19_Witness ==
  /\ Done
  /\ args.endpoint = "buildability"
  /\ args.request = Request(TheLot, "", TheLat, None, "")
  /\ ret.status = 400
  /\ calls = <<>>
  /\ _use_db = NoneStr

\* the resolved parcel carries the coordinate of an address
HasAddressCoordinate(parcel_data) ==
  /\ parcel_data.address # EmptyDict
  /\ parcel_data.address.lat # None
  /\ parcel_data.address.lng # None

\* point is the arithmetic mean of the vertices of the ring, <<lat, lng>>
\* of vertices <<lng, lat>>
IsMean(point, ring) ==
  /\ Len(ring) * point[1] = SumOf(ring, 2)
  /\ Len(ring) * point[2] = SumOf(ring, 1)

\* C20: a resolved parcel with an address coordinate gets that coordinate
\* as its representative point; one without, but with a polygon geometry,
\* the mean of the vertices of its ring; in both cases the request goes on.
\* A resolved parcel with neither ends the request with the missing
\* location error, no provider task launched.
C20_RepresentativePoint ==
  ParcelResolved =>
    LET parcel_data == Found.parcel_data IN
    IF HasAddressCoordinate(parcel_data)
    THEN /\ ret.status = 200
         /\ ret.point = <<parcel_data.address.lat, parcel_data.address.lng>>
    ELSE IF parcel_data.geometry.type = "Polygon"
    THEN /\ ret.status = 200
         /\ IsMean(ret.point, parcel_data.geometry.coordinates[1])
    ELSE /\ ret.status = 500
         /\ ret.detail = "Could not determine parcel location"
         /\ ret.point = NoPoint
         /\ tasks = <<>> /\ slots = <<>>

C20_Witness ==
  /\ ParcelResolved
  /\ args.endpoint = "ai_summary"
  /\ Found.parcel_data.geometry = NoGeometry
  /\ Found.parcel_data.address # EmptyDict
  /\ ret.status = 500
  /\ ret.detail = "Could not determine parcel location"

\* what the remote tier alone answers to a request
RemoteOnly(req) == Response(Locate(Enrich(FindParcel(req, world, FALSE, FALSE), world)))

\* a site_report request is answered while the local index does not answer
AnsweredWhileDown ==
  /\ Done
  /\ args.endpoint = "site_report"
  /\ AsksDb(args.request)
  /\ ~db_up

\* C26: a site_report request resolved while the local index does not
\* answer falls back to the remote tier, whatever the availability flag
\* recorded at an earlier request: no local lookup ends it with a server
\* error, and its response is the one the remote tier alone gives.
C26_FallbackWhenDown ==
  AnsweredWhileDown =>
    /\ ret.status # 500 \/ ret.detail = "Could not determine parcel location"
    /\ ret = RemoteOnly(args.request)

\* the same for a request that finds the flag not yet computed or computed
\* as unavailable: the flag it leaves is not "True"
FallbackOfFreshFlag == AnsweredWhileDown /\ _use_db # "True" => C26_FallbackWhenDown

\* the resolution of a request by site_report and by ai_summary in the
\* current state of the index and of the flag
ResolvedBySiteReport(req) ==
  LET flag == IF AsksDb(req) THEN use_db(_use_db, world, db_up) ELSE _use_db
  IN Response(Locate(Enrich(FindParcel(req, world, flag = "True", db_up), world)))

ResolvedByAiSummary(req) ==
  Response(Locate(Enrich(FindParcel(req, world, db_available(world, db_up), db_up), world)))

\* a request of site_report or of ai_summary is answered
AnsweredByEither == Done /\ args.endpoint \in {"site_report", "ai_summary"}

\* C29: for the same request, the same index and the same answers of the
\* services, site_report and ai_summary resolve alike: the same parcel with
\* the same representative point, or the same error; the response of the
\* endpoint that answered is the one the other endpoint gives in the same
\* state.
C29_SameResolution ==
  AnsweredByEither =>
    /\ ret = IF args.endpoint = "site_report" THEN ResolvedBySiteReport(args.request)
             ELSE ResolvedByAiSummary(args.request)
    /\ ResolvedBySiteReport(args.request) = ResolvedByAiSummary(args.request)

\* the same while the flag agrees with the index
SameResolutionOfFreshFlag ==
  AnsweredByEither /\ (_use_db = "True" <=> db_available(world, db_up)) => C29_SameResolution

-----------------------------------------------------------------------------
(* Properties of the report *)

\* the tasks the handler of the request has launched
Launched == {TaskList(args.endpoint)[i] : i \in 1..Len(TaskList(args.endpoint))}

\* the overlay entries of all layers, in the order of ALL_OVERLAY_LAYER_IDS
AllEntries(responses) ==
  BatchEntries(0, [p \in 1..Len(ALL_OVERLAY_LAYER_IDS) |-> Features(responses.overlays[p])])

\* what the provider of a category returns or raises, given what the
\* services answer
Provided(category, responses) ==
  Outcome(category, [args EXCEPT !.responses = responses], AllEntries(responses))

\* the result the handler holds for a category
SlotOf(category) == slots[Position(args.endpoint, category)]

\* the answers of a provider whose calls fail or are malformed
Degraded(c) == {Unreachable(c, k) : k \in ErrorKinds} \cup Malformed[c]

\* only the provider of category c departs from the normal answers, and it
\* fails
SingleFailure(c) ==
  /\ args.responses[c] \in Degraded(c)
  /\ \A d \in Categories \ {c} : args.responses[d] = NormalResponses[d]

\* the value of a category whose queries all found nothing
Default(c) == Provided(c, [NormalResponses EXCEPT ![c] = Unreachable(c, "transport")]).value

\* C1: when the calls of one provider category fail with a transport error,
\* time out or return a malformed response, the request still completes
\* without raising, the slot of that category holds its default value and
\* every other slot holds its normal result.
C1_SingleFailureTolerated ==
  pc = "done" =>
    \A c \in Launched :
      SingleFailure(c) =>
        /\ ret.status = 200
        /\ SlotOf(c).value = Default(c)
        /\ \A d \in Launched \ {c} : SlotOf(d).value = Provided(d, NormalResponses).value

\* every provider has returned to the handler, and the zone it holds has a
\* code
ProvidersReturned ==
  /\ pc = "done"
  /\ AllDone(tasks)
  /\ ~RulesRaise(SlotOf("zone").value)

\* the buildability of the parcel cannot be computed: no zone, no area, or a
\* zone no rules are known for
NotBuildable ==
  \/ SlotOf("zone").value = NoZone
  \/ ~TruthyNum(args.parcel_data.parcel.area_sqm)
  \/ get_zone_rules(SlotOf("zone").value.code) = NoRules

\* C6: when the parcel was resolved and its buildability cannot be computed
\* (no zone, missing area, unknown zone), the report is still produced, its
\* buildability section is null or an error record, and the score, the
\* strengths, the risks, the narrative and the precedent analysis are there.
C6_UnavailableMarked ==
  ProvidersReturned /\ NotBuildable =>
    /\ ret.status = 200
    /\ args.endpoint = "site_report" =>
         ret.buildability = EmptyDict \/ "error" \in DOMAIN ret.buildability
    /\ {"score", "strengths", "risks", "summary", "precedent_analysis"}
         \subseteq DOMAIN ret.ai_summary

\* C7: the handler composes its response only when every task it launched
\* has returned: at composition no task is pending and every slot holds the
\* result of its task, whatever the order the tasks finished in.
C7_ComposeAfterAllTasks ==
  pc = "compose" \/ (pc = "done" /\ ret.status = 200) =>
    /\ Len(tasks) = Len(TaskList(args.endpoint))
    /\ \A i \in DOMAIN tasks : tasks[i] = "done" /\ slots[i] # Pending

\* composition after a provider degraded and the others returned normally
C7_Witness ==
  /\ pc = "compose"
  /\ args.endpoint = "site_report"
  /\ args.responses.flood_info = Unreachable("flood_info", "transport")
  /\ \A i \in DOMAIN tasks : tasks[i] = "done"

\* the response computed from the answers of the services alone
Snapshot ==
  LET v(c) == Provided(c, args.responses).value
  IN IF args.endpoint = "site_report"
     THEN SiteReport(args, v("zone"), v("overlays"), v("height"), v("transport"),
                     v("infrastructure"), v("da_history"), v("flood_info"), v("constraints"))
     ELSE AiSummary(args, v("zone"), v("overlays"), v("height"), v("infrastructure"),
                    v("da_history"), v("flood_info"), v("constraints"))

\* C8: whatever the order the tasks and the layer queries finish in, each
\* result is at the position of its own task, the overlay entries are in the
\* order of the layer definitions, and at composition every slot holds what
\* its provider returns for the answers of its services, so that the
\* response is the one computed from the answers alone.
C8_OwnSlot ==
  pc \in {"gather", "compose", "done"} =>
    /\ \A i \in DOMAIN slots :
         slots[i] # Pending =>
           /\ slots[i].of = TaskList(args.endpoint)[i]
           /\ pc = "compose" => slots[i].value = Provided(slots[i].of, args.responses).value
    /\ \A k \in DOMAIN batch.results :
         batch.results[k] # Pending => batch.results[k].of = batch.start + k
    /\ batch.entries =
         BatchEntries(0, [p \in 1..batch.start |-> Features(args.responses.overlays[p])])
    /\ pc = "done" /\ ret.status = 200 => ret = Snapshot

\* a later task and a later layer query have returned before an earlier one
C8_Witness ==
  /\ pc = "gather"
  /\ \E i, j \in DOMAIN tasks : i < j /\ tasks[i] = "pending" /\ tasks[j] = "done"
  /\ \E k, l \in DOMAIN batch.results :
       k < l /\ batch.results[k] = Pending /\ batch.results[l] # Pending

\* the buildability the handler hands to generate_ai_summary
ComputedBuildability ==
  Buildability(args.parcel_data.parcel, SlotOf("zone").value, SlotOf("overlays").value,
               SlotOf("height").value)

\* the buildability is absent or is the record of a missing area
BuildabilityNotComputed ==
  ComputedBuildability = EmptyDict \/ "error" \in DOMAIN ComputedBuildability

\* the strengths that depend on the buildability
BuildabilityStrengths ==
  {"Lot size compliant with zone requirements", "Subdivision potential",
   "Multi-dwelling potential"}

\* C27: when the buildability was not computed (absent, or the record of a
\* missing area), no strength that depends on it is reported: neither
\* the lot compliance, nor the subdivision potential, nor the
\* multi-dwelling potential is among the strengths or in the narrative.
C27_NoStrengthWithoutBuildability ==
  ProvidersReturned /\ ret.status = 200 /\ BuildabilityNotComputed =>
    \A text \in BuildabilityStrengths :
      /\ \A i \in 1..Len(ret.ai_summary.strengths) :
           ~OpensWith(ret.ai_summary.strengths[i], text)
      /\ ~Contains(ret.ai_summary.summary, text)

\* the same when the buildability is absent
NoStrengthOfAbsentBuildability ==
  ProvidersReturned /\ ComputedBuildability = EmptyDict => C27_NoStrengthWithoutBuildability

\* the categories the scorer and the risks read
ScoredCategories == {"overlays", "flood_info", "constraints", "infrastructure"}

\* every query of the provider of the category failed
AllCallsFailed(category) ==
  \E kind \in ErrorKinds : args.responses[category] = Unreachable(category, kind)

\* what the handler holds for a category, or no data for the one left out
HeldExcept(category, missing) ==
  IF category # missing THEN SlotOf(category).value
  ELSE IF category = "overlays" THEN <<>> ELSE EmptyDict

\* the score and the risks of the request with no data for one category
ScoredWithout(missing) ==
  calculate_constraints_score(HeldExcept("overlays", missing), HeldExcept("flood_info", missing),
                              HeldExcept("constraints", missing),
                              HeldExcept("infrastructure", missing), ComputedBuildability)

RisksWithout(missing) ==
  _identify_risks(HeldExcept("overlays", missing), HeldExcept("flood_info", missing),
                  HeldExcept("constraints", missing), HeldExcept("infrastructure", missing),
                  ComputedBuildability, ret.ai_summary.precedent_analysis)

\* the score, the deductions and the risks are those of no data for the
\* category
AsNoData(category) ==
  /\ \E scored \in {ScoredWithout(category)} :
       /\ ret.ai_summary.score = scored.score
       /\ ret.ai_summary.score_deductions = scored.deductions
  /\ ret.ai_summary.risks = RisksWithout(category)

\* C28: a category whose queries all failed counts as no data: the score,
\* the deductions and the risks of the response are those of the same
\* request with no data for that category; so for the infrastructure when
\* every infrastructure query failed.
C28_FailureIsNoData ==
  ProvidersReturned /\ ret.status = 200 =>
    \A category \in ScoredCategories : AllCallsFailed(category) => AsNoData(category)

\* the same for the categories other than the infrastructure
FailureIsNoDataButInfrastructure ==
  ProvidersReturned /\ ret.status = 200 =>
    \A category \in ScoredCategories \ {"infrastructure"} :
      AllCallsFailed(category) => AsNoData(category)

\* what the other endpoint answers to the request, from the answers of the
\* services alone
TwinSnapshot ==
  LET v(c) == Provided(c, args.responses).value
  IN IF args.endpoint = "ai_summary"
     THEN SiteReport(args, v("zone"), v("overlays"), v("height"), v("transport"),
                     v("infrastructure"), v("da_history"), v("flood_info"), v("constraints"))
     ELSE AiSummary(args, v("zone"), v("overlays"), v("height"), v("infrastructure"),
                    v("da_history"), v("flood_info"), v("constraints"))

\* for the same located parcel and the same answers of the services, the
\* analysis of ai_summary is the ai_summary section of site_report
SameAnalysisOfLocated ==
  pc = "done" /\ ret.status = 200 =>
    /\ TwinSnapshot.status = 200
    /\ ret.ai_summary = TwinSnapshot.ai_summary

\* the same for a parcel with a lot and a plan
SameAnalysisOfNumbered ==
  LotPlan(args.parcel_data.parcel) # NoneStr => SameAnalysisOfLocated

====
